---- MODULE Spec2Model ----
(***************************************************************************)
(* Journey / transition analytics of rybbit: the step labeler, the session *)
(* path builder, the journey aggregator (getJourneys), the transition      *)
(* finder (getJourneyTransitionSessions) and the step-detail lookup        *)
(* (getJourneyStepEventDetails), over an append-only event store.          *)
(*                                                                         *)
(* A string of the program is a sequence of one-character strings, so that *)
(* splitting, prefix tests and concatenation are computed as the SQL and   *)
(* the TypeScript compute them.                                            *)
(***************************************************************************)
EXTENDS Integers, Sequences, FiniteSets, TLC

VARIABLES
  ev,        \* labeler harness: the event whose label is derived
  labels,    \* labeler harness: scan name -> the label that scan derived
  store,     \* the events table: the set of event rows ingested so far
  pc,        \* position of the request in flight: "idle" when there is none
  req,       \* the query string of the request in flight
  scan,      \* what the queries of the request in flight have read so far
  res,       \* the response sent, [status |-> 0] before it is sent
  walk       \* the client paging through a transition: the pages it has been shown, in order

vars == <<ev, labels, store, pc, req, scan, res, walk>>
harness == <<ev, labels>>

(***************************************************************************)
(* Strings                                                                 *)
(***************************************************************************)
\* SQL NULL for a string column: no string, since every character of a string is one character long
Null == <<"NULL">>

EmptyStr == <<>>

Slash == "/"

S_pageview == <<"p","a","g","e","v","i","e","w">>
S_custom_event == <<"c","u","s","t","o","m","_","e","v","e","n","t">>
S_button_click == <<"b","u","t","t","o","n","_","c","l","i","c","k">>
S_copy == <<"c","o","p","y">>
S_form_submit == <<"f","o","r","m","_","s","u","b","m","i","t">>
S_input_change == <<"i","n","p","u","t","_","c","h","a","n","g","e">>
S_outbound == <<"o","u","t","b","o","u","n","d">>
\* a type none of the queries names (the events table also holds performance rows)
S_performance == <<"p","e","r","f","o","r","m","a","n","c","e">>

S_eventColon == <<"e","v","e","n","t",":">>
S_colon == <<":">>
S_slash == <<"/">>
S_assetDraft == <<"/","a","s","s","e","t","/","d","r","a","f","t">>
S_assetDraftSlash == <<"/","a","s","s","e","t","/","d","r","a","f","t","/">>

\* type IN ('custom_event', 'button_click', 'copy', 'form_submit', 'input_change', 'outbound')
InteractionTypes ==
  {S_custom_event, S_button_click, S_copy, S_form_submit, S_input_change, S_outbound}

\* ClickHouse startsWith(s, prefix)
startsWith(s, prefix) ==
  /\ Len(s) >= Len(prefix)
  /\ SubSeq(s, 1, Len(prefix)) = prefix

\* position of the first sep in s at or after i, Len(s) + 1 when there is none
RECURSIVE NextSep(_, _, _)
NextSep(s, sep, i) ==
  IF i > Len(s) THEN Len(s) + 1
  ELSE IF s[i] = sep THEN i
  ELSE NextSep(s, sep, i + 1)

\* ClickHouse splitByChar(sep, s): the pieces between the separators; '' gives ['']
RECURSIVE splitFrom(_, _, _)
splitFrom(sep, s, i) ==
  LET j == NextSep(s, sep, i)
  IN  IF j > Len(s) THEN <<SubSeq(s, i, Len(s))>>
      ELSE <<SubSeq(s, i, j - 1)>> \o splitFrom(sep, s, j + 1)

splitByChar(sep, s) == splitFrom(sep, s, 1)

\* ClickHouse arr[i], 1-based, a negative i counting from the end: the element, or the type's default ('' for String) out of range
arrayElementStr(arr, i) ==
  IF i >= 1 /\ i <= Len(arr) THEN arr[i]
  ELSE IF i < 0 /\ 0 - i <= Len(arr) THEN arr[Len(arr) + 1 + i]
  ELSE EmptyStr

\* event_name != '' AND event_name IS NOT NULL
HasEventName(e) == e.event_name # EmptyStr /\ e.event_name # Null

\* CONCAT('event:', type, IF(event_name != '' AND event_name IS NOT NULL, CONCAT(':', event_name), ''))
EventLabel(e) ==
  S_eventColon \o e.type \o (IF HasEventName(e) THEN S_colon \o e.event_name ELSE EmptyStr)

(***************************************************************************)
(* Step labelers, one per place in the source that derives step_label      *)
(***************************************************************************)
\* IF(length(splitByChar('/', pathname)) >= 3, CONCAT('/', splitByChar('/', pathname)[2]), pathname)
FirstSegmentLabel(pathname) ==
  IF Len(splitByChar(Slash, pathname)) >= 3
  THEN S_slash \o arrayElementStr(splitByChar(Slash, pathname), 2)
  ELSE pathname

\* CASE WHEN startsWith(pathname, '/asset/draft/') THEN '/asset/draft' ELSE pathname END
DraftPrefixLabel(pathname) ==
  IF startsWith(pathname, S_assetDraftSlash) THEN S_assetDraft ELSE pathname

\* a plausible slip: the ':' separator is appended whether or not there is an event name
JourneysStepLabel_NoNameTest(e) ==
  IF e.type = S_pageview THEN FirstSegmentLabel(e.pathname)
  ELSE IF e.type \in InteractionTypes THEN S_eventColon \o e.type \o S_colon \o e.event_name
  ELSE FirstSegmentLabel(e.pathname)

\* getJourneys: the CASE of the user_paths scan
JourneysStepLabel(e) ==
  IF e.type = S_pageview THEN FirstSegmentLabel(e.pathname)
  ELSE IF e.type \in InteractionTypes THEN EventLabel(e)
  ELSE FirstSegmentLabel(e.pathname)

\* getJourneyTransitionSessions: stepLabelCase, interpolated into the page scan and the count scan
stepLabelCase(e) ==
  IF e.type = S_pageview THEN DraftPrefixLabel(e.pathname)
  ELSE IF e.type \in InteractionTypes THEN EventLabel(e)
  ELSE DraftPrefixLabel(e.pathname)

\* getJourneyStepEventDetails: the CASE of the histogram scan
DetailPropsStepLabel(e) ==
  IF e.type = S_pageview THEN DraftPrefixLabel(e.pathname)
  ELSE IF e.type \in InteractionTypes THEN EventLabel(e)
  ELSE DraftPrefixLabel(e.pathname)

\* getJourneyStepEventDetails: the CASE of the event-list scan
DetailEventsStepLabel(e) ==
  IF e.type = S_pageview THEN DraftPrefixLabel(e.pathname)
  ELSE IF e.type \in InteractionTypes THEN EventLabel(e)
  ELSE DraftPrefixLabel(e.pathname)

(***************************************************************************)
(* Labeler harness: one event, labelled by each scan                       *)
(***************************************************************************)
LabelTypes == InteractionTypes \cup {S_pageview, S_performance}

LabelPaths ==
  { EmptyStr,
    <<"/">>,
    <<"/","a">>,
    <<"/","a","/">>,
    <<"/","a","/","b">>,
    <<"/","a","/","b","/","c">>,
    <<"a","/","b","/","c">>,
    S_assetDraft,
    S_assetDraftSlash,
    S_assetDraftSlash \o <<"1","2","3">>,
    S_assetDraftSlash \o <<"1","/","x">> }

LabelNames == { EmptyStr, Null, <<"x">>, <<"a",":","b">> }

LabelEvents == [type : LabelTypes, pathname : LabelPaths, event_name : LabelNames]

Scans == {"journeys", "transition_page", "transition_count", "detail_props", "detail_events"}

NoLabel == <<"NONE">>

\* no request in flight
NoReq == [handler |-> "none"]
NoScan == [query |-> "none"]
NoRes == [status |-> 0]

InitLabel ==
  /\ ev \in LabelEvents
  /\ labels = [s \in Scans |-> NoLabel]
  /\ store = {}
  /\ pc = "idle"
  /\ req = NoReq
  /\ scan = NoScan
  /\ res = NoRes
  /\ walk = <<>>

LabelInJourneys ==
  /\ labels["journeys"] = NoLabel
  /\ labels' = [labels EXCEPT !["journeys"] = JourneysStepLabel(ev)]
  /\ UNCHANGED <<ev, store, pc, req, scan, res, walk>>

LabelInTransitionPage ==
  /\ labels["transition_page"] = NoLabel
  /\ labels' = [labels EXCEPT !["transition_page"] = stepLabelCase(ev)]
  /\ UNCHANGED <<ev, store, pc, req, scan, res, walk>>

LabelInTransitionCount ==
  /\ labels["transition_count"] = NoLabel
  /\ labels' = [labels EXCEPT !["transition_count"] = stepLabelCase(ev)]
  /\ UNCHANGED <<ev, store, pc, req, scan, res, walk>>

LabelInDetailProps ==
  /\ labels["detail_props"] = NoLabel
  /\ labels' = [labels EXCEPT !["detail_props"] = DetailPropsStepLabel(ev)]
  /\ UNCHANGED <<ev, store, pc, req, scan, res, walk>>

LabelInDetailEvents ==
  /\ labels["detail_events"] = NoLabel
  /\ labels' = [labels EXCEPT !["detail_events"] = DetailEventsStepLabel(ev)]
  /\ UNCHANGED <<ev, store, pc, req, scan, res, walk>>

NextLabel ==
  \/ LabelInJourneys
  \/ LabelInTransitionPage
  \/ LabelInTransitionCount
  \/ LabelInDetailProps
  \/ LabelInDetailEvents

SpecLabel == InitLabel /\ [][NextLabel]_vars

PageviewLike(e) == e.type \notin InteractionTypes

\* C1: every scan that has labelled the event derived the same string.
C1_SameLabelEverywhere ==
  \A s, t \in Scans :
    (labels[s] # NoLabel /\ labels[t] # NoLabel) => labels[s] = labels[t]

\* the rule of the specification for a path: the draft-asset prefix collapses to /asset/draft,
\* a path of at least 3 '/'-delimited pieces is reduced to '/' + its first segment, else the raw path
ClaimedPathLabel(pathname) ==
  IF startsWith(pathname, S_assetDraftSlash) THEN S_assetDraft
  ELSE IF Len(splitByChar(Slash, pathname)) >= 3
       THEN S_slash \o splitByChar(Slash, pathname)[2]
       ELSE pathname

\* C2: a pageview-like event is labelled by the path rule (reduced to its first segment from
\* 3 pieces on, /asset/draft/123 labelled /asset/draft, the raw path otherwise) in every scan.
C2_PageviewLabel ==
  PageviewLike(ev) =>
    \A s \in Scans : labels[s] # NoLabel => labels[s] = ClaimedPathLabel(ev.pathname)

\* C3: an interaction event is labelled event:<type>, followed by :<event_name> exactly when
\* the event name is non-empty and not null, whatever the pathname, in every scan.
C3_InteractionLabel ==
  ev.type \in InteractionTypes =>
    \A s \in Scans :
      labels[s] # NoLabel =>
        /\ SubSeq(labels[s], 1, 6 + Len(ev.type)) = S_eventColon \o ev.type
        /\ IF ev.event_name \in {EmptyStr, Null}
           THEN Len(labels[s]) = 6 + Len(ev.type)
           ELSE SubSeq(labels[s], 7 + Len(ev.type), Len(labels[s])) = S_colon \o ev.event_name

C3_Witness ==
  /\ ev.type = S_custom_event
  /\ ev.event_name = <<"x">>
  /\ ev.pathname = <<"/","a","/","b">>
  /\ \A s \in Scans : labels[s] = S_eventColon \o S_custom_event \o <<":","x">>

(***************************************************************************)
(* JavaScript and JSON helpers the handlers use on the query string        *)
(***************************************************************************)
\* a query parameter the request does not carry
Undefined == <<"UNDEFINED">>

\* a JavaScript number: NaN, or an integer
NaN == [nan |-> TRUE, v |-> 0]
Num(n) == [nan |-> FALSE, v |-> n]

DigitChars == {"0","1","2","3","4","5","6","7","8","9"}

DigitVal(c) ==
  CASE c = "0" -> 0 [] c = "1" -> 1 [] c = "2" -> 2 [] c = "3" -> 3 [] c = "4" -> 4
    [] c = "5" -> 5 [] c = "6" -> 6 [] c = "7" -> 7 [] c = "8" -> 8 [] c = "9" -> 9

\* String.prototype.trim, with the space as the white space of the requests
RECURSIVE trimStart(_)
trimStart(s) == IF s # <<>> /\ Head(s) = " " THEN trimStart(Tail(s)) ELSE s

RECURSIVE trimEnd(_)
trimEnd(s) == IF s # <<>> /\ s[Len(s)] = " " THEN trimEnd(SubSeq(s, 1, Len(s) - 1)) ELSE s

trim(s) == trimEnd(trimStart(s))

\* the digits s starts with, as a number; acc is the value read so far
RECURSIVE LeadingDigits(_, _)
LeadingDigits(s, acc) ==
  IF s # <<>> /\ Head(s) \in DigitChars
  THEN LeadingDigits(Tail(s), 10 * acc + DigitVal(Head(s)))
  ELSE acc

\* parseInt(s, 10): leading white space, an optional sign, then digits; NaN without a digit
parseInt(s) ==
  LET t == trimStart(s)
      neg == t # <<>> /\ Head(t) = "-"
      u == IF t # <<>> /\ Head(t) \in {"-", "+"} THEN Tail(t) ELSE t
  IN  IF u = <<>> \/ Head(u) \notin DigitChars THEN NaN
      ELSE Num(IF neg THEN 0 - LeadingDigits(u, 0) ELSE LeadingDigits(u, 0))

\* String.prototype.includes for one character
includes(s, c) == \E i \in 1..Len(s) : s[i] = c

\* Array.prototype.filter(Boolean) on strings: the empty string is dropped
RECURSIVE filterBoolean(_)
filterBoolean(a) ==
  IF a = <<>> THEN <<>>
  ELSE (IF Head(a) = <<>> THEN <<>> ELSE <<Head(a)>>) \o filterBoolean(Tail(a))

mapTrim(a) == [i \in 1..Len(a) |-> trim(a[i])]

\* a JSON string literal without escapes: "..." with no quote inside
IsJSONString(t) ==
  /\ Len(t) >= 2
  /\ t[1] = "\"" /\ t[Len(t)] = "\""
  /\ \A i \in 2..(Len(t) - 1) : t[i] # "\""

\* a JSON number of digits only: no leading zero before another digit
IsJSONNumber(t) ==
  /\ t # <<>>
  /\ \A i \in 1..Len(t) : t[i] \in DigitChars
  /\ Len(t) > 1 => t[1] # "0"

\* String(item) of a parsed array item: the content of a string literal, the digits of a number
JSONItemString(t) == IF IsJSONString(t) THEN SubSeq(t, 2, Len(t) - 1) ELSE t

\* JSON.parse on the texts the requests carry: an array of string literals and numbers (white
\* space around the items allowed, no comma and no escape inside an item), a number, or no
\* JSON; the items of an array are given as String(item)
JSONParse(raw) ==
  LET t == trim(raw)
      inner == trim(SubSeq(t, 2, Len(t) - 1))
      items == mapTrim(splitByChar(",", inner))
  IN  IF Len(t) >= 2 /\ t[1] = "[" /\ t[Len(t)] = "]"
      THEN IF inner = <<>> THEN [kind |-> "array", items |-> <<>>]
           ELSE IF \A i \in 1..Len(items) : IsJSONString(items[i]) \/ IsJSONNumber(items[i])
                THEN [kind |-> "array",
                      items |-> [i \in 1..Len(items) |-> JSONItemString(items[i])]]
                ELSE [kind |-> "throws", items |-> <<>>]
      ELSE IF IsJSONNumber(t)
           THEN [kind |-> "number", items |-> <<>>]
           ELSE [kind |-> "throws", items |-> <<>>]

\* excludeEventNames.split(",").map(name => name.trim()).filter(Boolean)
commaSplit(raw) == filterBoolean(mapTrim(splitByChar(",", raw)))

\* a plausible slip: the names of a JSON array are not trimmed
excludedEventNames_ArrayUntrimmed(raw) ==
  IF raw = Undefined \/ raw = <<>> THEN <<>>
  ELSE LET parsed == JSONParse(raw)
       IN  IF parsed.kind = "array" THEN filterBoolean(parsed.items)
           ELSE commaSplit(raw)

\* the excludeEventNames parameter as both handlers parse it: a JSON array, else comma-separated
excludedEventNames(raw) ==
  IF raw = Undefined \/ raw = <<>> THEN <<>>
  ELSE LET parsed == JSONParse(raw)
       IN  IF parsed.kind = "array" THEN filterBoolean(mapTrim(parsed.items))
           ELSE commaSplit(raw)

Range(q) == {q[i] : i \in 1..Len(q)}

\* includeEvents === "true" || includeEvents === "1", the parameter defaulting to "true"
includeEventsInJourney(raw) ==
  LET v == IF raw = Undefined THEN <<"t","r","u","e">> ELSE raw
  IN  v = <<"t","r","u","e">> \/ v = <<"1">>

(***************************************************************************)
(* The wildcard matcher of step filters (patternToRegex and match)         *)
(***************************************************************************)
\* '**' matches any characters, '*' one or more characters other than '/', anything else itself
RECURSIVE GlobMatch(_, _)
GlobMatch(p, s) ==
  IF p = <<>> THEN s = <<>>
  ELSE IF Len(p) >= 2 /\ p[1] = "*" /\ p[2] = "*"
       THEN \E k \in 0..Len(s) : GlobMatch(SubSeq(p, 3, Len(p)), SubSeq(s, k + 1, Len(s)))
  ELSE IF p[1] = "*"
       THEN \E k \in 1..Len(s) :
              /\ \A i \in 1..k : s[i] # "/"
              /\ GlobMatch(Tail(p), SubSeq(s, k + 1, Len(s)))
  ELSE s # <<>> /\ s[1] = p[1] /\ GlobMatch(Tail(p), Tail(s))

(***************************************************************************)
(* The events table and the scans over it                                  *)
(***************************************************************************)
\* the predicate getFilterStatement compiles: no filter, or the events of one country
FilterStatement(filters, e) == filters = Undefined \/ e.country = filters

\* a scan's row order under ORDER BY session_id, timestamp: rows that tie on both come in
\* any order
ScanKeyLeq(a, b) ==
  \/ a.session_id < b.session_id
  \/ a.session_id = b.session_id /\ a.timestamp <= b.timestamp

RECURSIVE ScanOrders(_)
ScanOrders(rows) ==
  IF rows = {} THEN {<<>>}
  ELSE UNION { { <<e>> \o o : o \in ScanOrders(rows \ {e}) } :
               e \in {x \in rows : \A y \in rows : ScanKeyLeq(x, y)} }

\* a plausible slip: arrayDistinct, which drops every repeat, in place of arrayCompact
RECURSIVE arrayCompact_Distinct(_)
arrayCompact_Distinct(a) ==
  IF a = <<>> THEN a
  ELSE <<a[1]>> \o arrayCompact_Distinct(SelectSeq(Tail(a), LAMBDA x : x # a[1]))

\* ClickHouse arrayCompact: consecutive equal elements become one
RECURSIVE arrayCompact(_)
arrayCompact(a) ==
  IF Len(a) <= 1 THEN a
  ELSE IF a[1] = a[2] THEN arrayCompact(Tail(a))
  ELSE <<a[1]>> \o arrayCompact(Tail(a))

\* a plausible slip: the slice is one step short
arraySlice_OneShort(a, n) == SubSeq(a, 1, IF Len(a) < n - 1 THEN Len(a) ELSE n - 1)

\* ClickHouse arraySlice(a, 1, n)
arraySlice(a, n) == SubSeq(a, 1, IF Len(a) < n THEN Len(a) ELSE n)

\* ClickHouse arrayIndexOf: the 1-based index of the first element equal to x, 0 when none
RECURSIVE IndexFrom(_, _, _)
IndexFrom(a, x, i) ==
  IF i > Len(a) THEN 0 ELSE IF a[i] = x THEN i ELSE IndexFrom(a, x, i + 1)

arrayIndexOf(a, x) == IndexFrom(a, x, 1)

SessionsOf(rows) == {e.session_id : e \in rows}

\* the rows of one session, in scan order
SessionRows(order, sid) == SelectSeq(order, LAMBDA e : e.session_id = sid)

\* the WHERE of the path scans: the filter, the types in the journey, the excluded names
\* a plausible slip: the condition on the excluded names is left out
PathScanWhere_NoExclusion(e, filters, includeEvents, excluded) ==
  /\ FilterStatement(filters, e)
  /\ \/ e.type = S_pageview
     \/ includeEvents /\ e.type \in InteractionTypes

PathScanWhere(e, filters, includeEvents, excluded) ==
  /\ FilterStatement(filters, e)
  /\ \/ e.type = S_pageview
     \/ includeEvents /\ e.type \in InteractionTypes
  /\ ~ (excluded # <<>> /\ e.type \in InteractionTypes /\ e.event_name \in Range(excluded))

\* groupArray(step_label) over the ordered subquery of getJourneys
JourneysGroupArray(rows) == [i \in 1..Len(rows) |-> JourneysStepLabel(rows[i])]

\* groupArray(step_label) over the ordered subquery of the transition scans
TransitionGroupArray(rows) == [i \in 1..Len(rows) |-> stepLabelCase(rows[i])]

\* the number of events the table may hold
MaxEvents == 6

\* the ingestion pipeline appends one event of the site's traffic (universe) to the table,
\* between two requests
Ingest(universe) ==
  /\ pc = "idle"
  /\ Cardinality(store) < MaxEvents
  /\ \E e \in universe \ store : store' = store \cup {e}
  /\ UNCHANGED <<ev, labels, pc, req, scan, res, walk>>

\* the response reaches the caller; the handler keeps nothing of the request
Deliver ==
  /\ pc = "sent"
  /\ pc' = "idle"
  /\ req' = NoReq
  /\ scan' = NoScan
  /\ res' = NoRes
  /\ UNCHANGED <<ev, labels, store, walk>>

(***************************************************************************)
(* getJourneys                                                             *)
(***************************************************************************)
OrDefault(param, default) == IF param = Undefined THEN default ELSE param

\* user_paths before its HAVING: session_id -> arrayCompact(groupArray(step_label))
JourneysPathSequences(order) ==
  [sid \in SessionsOf(Range(order)) |->
     arrayCompact(JourneysGroupArray(SessionRows(order, sid)))]

\* a plausible slip: the HAVING of user_paths is left out
JourneysUserPaths_NoHaving(path_sequence) == path_sequence

\* user_paths: GROUP BY session_id HAVING length(path_sequence) >= 2
JourneysUserPaths(path_sequence) ==
  [sid \in {x \in DOMAIN path_sequence : Len(path_sequence[x]) >= 2} |-> path_sequence[sid]]

\* a plausible slip: every path is compared as a literal
StepFilterCondition_Literal(journey, step, path) ==
  arrayElementStr(journey, parseInt(step).v + 1) = path

\* one condition of stepFilterConditions on a journey: wildcard match, or exact match
StepFilterCondition(journey, step, path) ==
  LET stepIndex == parseInt(step).v + 1
  IN  IF includes(path, "*")
      THEN GlobMatch(path, arrayElementStr(journey, stepIndex))
      ELSE arrayElementStr(journey, stepIndex) = path

\* the HAVING of journey_segments: every condition, joined by AND; none when there is no filter
stepFilterConditions(journey, entries) ==
  \A i \in 1..Len(entries) : StepFilterCondition(journey, entries[i].step, entries[i].path)

\* journey_segments before ORDER BY and LIMIT: journey -> sessions_count, the HAVING applied
JourneyGroups(user_paths, maxSteps, entries) ==
  LET journeys == {arraySlice(user_paths[sid], maxSteps) : sid \in DOMAIN user_paths}
      kept == {j \in journeys : stepFilterConditions(j, entries)}
  IN  [j \in kept |->
         Cardinality({sid \in DOMAIN user_paths : arraySlice(user_paths[sid], maxSteps) = j})]

\* the orders ORDER BY sessions_count DESC allows: journeys of equal count come in any order
RECURSIVE OrderByCountDesc(_)
OrderByCountDesc(groups) ==
  IF DOMAIN groups = {} THEN {<<>>}
  ELSE UNION { { <<j>> \o o :
                 o \in OrderByCountDesc([k \in DOMAIN groups \ {j} |-> groups[k]]) } :
               j \in {x \in DOMAIN groups : \A y \in DOMAIN groups : groups[x] >= groups[y]} }

\* LIMIT n
Limit(rows, n) == SubSeq(rows, 1, IF Len(rows) < n THEN Len(rows) ELSE n)

\* a plausible slip: the LIMIT is applied to the groups before the step filters
JourneySegments_LimitFirst(user_paths, maxSteps, journeyLimit, entries) ==
  { SelectSeq(Limit(o, journeyLimit), LAMBDA j : stepFilterConditions(j, entries)) :
    o \in OrderByCountDesc(JourneyGroups(user_paths, maxSteps, <<>>)) }

\* journey_segments: the results GROUP BY, HAVING, ORDER BY sessions_count DESC, LIMIT can give
JourneySegments(user_paths, maxSteps, journeyLimit, entries) ==
  { Limit(o, journeyLimit) : o \in OrderByCountDesc(JourneyGroups(user_paths, maxSteps, entries)) }

\* a plausible slip: the denominator counts only the sessions that have a journey
JourneysDenominator_PathsOnly(rows, filters) ==
  Cardinality({sid \in SessionsOf({e \in rows : FilterStatement(filters, e)}) :
                 Cardinality({e \in rows : e.session_id = sid /\ e.type = S_pageview}) >= 2})

\* SELECT count(DISTINCT session_id) FROM events WHERE site, time and filter
JourneysDenominator(rows, filters) ==
  Cardinality(SessionsOf({e \in rows : FilterStatement(filters, e)}))

\* the response rows: path, count, and percentage = sessions_count * 100 / denominator as the
\* exact quotient num / den
JourneysResponse(segments, groups, denominator) ==
  [i \in 1..Len(segments) |->
     [path |-> segments[i],
      count |-> groups[segments[i]],
      percentage |-> [num |-> groups[segments[i]] * 100, den |-> denominator]]]

\* what a query of the event store can throw: the message of the error
S_timeout == <<"t","i","m","e","o","u","t">>
S_memory == <<"m","e","m","o","r","y">>
StoreErrors == {S_timeout, S_memory}

\* a query of the event store answers (NoError) or throws one of the errors
NoError == <<"NONE">>
QueryOutcomes == {NoError} \cup StoreErrors

\* JSON.parse(stepFilters) gave a value Object.entries or path.includes throws a TypeError on:
\* null, or an object with a value that is not a string
StepFiltersTypeError(stepFilters) == stepFilters.json \in {"null", "nonstring"}

\* the handler, from the query string to the response
GetJourneys(requests) ==
  /\ pc = "idle"
  /\ \E r \in requests :
       LET maxSteps == parseInt(OrDefault(r.steps, <<"3">>))
           journeyLimit == parseInt(OrDefault(r.limit, <<"1","0","0">>))
           includeEvents == includeEventsInJourney(r.includeEvents)
           excluded == excludedEventNames(r.excludeEventNames)
           entries == IF r.stepFilters.json = "object" THEN r.stepFilters.entries ELSE <<>>
           rows == {e \in store : PathScanWhere(e, r.filters, includeEvents, excluded)}
       IN  /\ req' = r
           /\ pc' = "sent"
           /\ IF maxSteps.nan \/ maxSteps.v < 2 \/ maxSteps.v > 10
              THEN /\ res' = [status |-> 400, error |-> "Steps parameter must be a number between 2 and 10"]
                   /\ scan' = NoScan
              ELSE IF journeyLimit.nan \/ journeyLimit.v < 1 \/ journeyLimit.v > 500
              THEN /\ res' = [status |-> 400, error |-> "Limit parameter must be a number between 1 and 500"]
                   /\ scan' = NoScan
              ELSE IF r.stepFilters.json = "malformed"
              THEN /\ res' = [status |-> 400, error |-> "Invalid stepFilters format"]
                   /\ scan' = NoScan
              ELSE IF StepFiltersTypeError(r.stepFilters)
              THEN \* thrown while the conditions are built: the catch block answers
                   /\ res' = [status |-> 500, error |-> "Failed to get journeys"]
                   /\ scan' = NoScan
              ELSE \E outcome \in QueryOutcomes :
                     IF outcome # NoError
                     THEN /\ res' = [status |-> 500, error |-> "Failed to get journeys"]
                          /\ scan' = [query |-> "failed", logged |-> outcome]
                     ELSE \E order \in ScanOrders(rows) :
                       LET path_sequence == JourneysPathSequences(order)
                           user_paths == JourneysUserPaths(path_sequence)
                           groups == JourneyGroups(user_paths, maxSteps.v, entries)
                       IN  \E segments \in JourneySegments(user_paths, maxSteps.v, journeyLimit.v, entries) :
                             /\ scan' = [query |-> "journeys", order |-> order,
                                         path_sequence |-> path_sequence,
                                         query_params |-> [maxSteps |-> maxSteps.v,
                                                           journeyLimit |-> journeyLimit.v],
                                         excluded |-> excluded]
                             /\ res' = [status |-> 200,
                                        journeys |-> JourneysResponse(segments, groups,
                                                       JourneysDenominator(store, r.filters))]
  /\ UNCHANGED <<ev, labels, store, walk>>

(***************************************************************************)
(* getJourneyTransitionSessions                                            *)
(***************************************************************************)
\* JavaScript truthiness of an optional string parameter
Truthy(param) == param # Undefined /\ param # <<>>

\* user_paths before its HAVING, page scan: session_id -> the compacted labels and
\* groupArray(timestamp), which keeps one entry per row
PagePathSequences(order) ==
  [sid \in SessionsOf(Range(order)) |->
     [path_sequence |-> arrayCompact(TransitionGroupArray(SessionRows(order, sid))),
      timestamps |-> [i \in 1..Len(SessionRows(order, sid)) |-> SessionRows(order, sid)[i].timestamp]]]

\* user_paths of the page scan: HAVING length(path_sequence) >= 2
PageUserPaths(paths) ==
  [sid \in {x \in DOMAIN paths : Len(paths[x].path_sequence) >= 2} |-> paths[sid]]

\* user_paths before its HAVING, count scan
CountPathSequences(order) ==
  [sid \in SessionsOf(Range(order)) |->
     [path_sequence |-> arrayCompact(TransitionGroupArray(SessionRows(order, sid)))]]

\* user_paths of the count scan: HAVING length(path_sequence) >= 2
CountUserPaths(paths) ==
  [sid \in {x \in DOMAIN paths : Len(paths[x].path_sequence) >= 2} |-> paths[sid]]

\* a plausible slip: the position is tested as a number, so that position 0 counts as absent
StepPositionCondition_ZeroFalsy(index, stepParam) ==
  \/ ~ Truthy(stepParam)
  \/ parseInt(stepParam) = Num(0)
  \/ /\ ~ parseInt(stepParam).nan
     /\ index = parseInt(stepParam).v + 1

\* ${sourceStep ? `AND arrayIndexOf(...) = ${parseInt(sourceStep, 10) + 1}` : ""}: no condition
\* for an absent or empty parameter; a comparison with NaN is false
StepPositionCondition(index, stepParam) ==
  \/ ~ Truthy(stepParam)
  \/ /\ ~ parseInt(stepParam).nan
     /\ index = parseInt(stepParam).v + 1

\* the WHERE of matching_sessions and of the count: both labels in the path, the first source
\* strictly before the first target, each at its required position
TransitionWhere(path_sequence, source, target, sourceStep, targetStep) ==
  /\ arrayIndexOf(path_sequence, source) > 0
  /\ arrayIndexOf(path_sequence, target) > 0
  /\ arrayIndexOf(path_sequence, source) < arrayIndexOf(path_sequence, target)
  /\ StepPositionCondition(arrayIndexOf(path_sequence, source), sourceStep)
  /\ StepPositionCondition(arrayIndexOf(path_sequence, target), targetStep)

\* matching_sessions: one row per qualifying session
MatchingSessions(user_paths, r) ==
  { [session_id |-> sid,
     source_index |-> arrayIndexOf(user_paths[sid].path_sequence, r.source),
     target_index |-> arrayIndexOf(user_paths[sid].path_sequence, r.target),
     transition_timestamp |->
       user_paths[sid].timestamps[arrayIndexOf(user_paths[sid].path_sequence, r.source)]] :
    sid \in {x \in DOMAIN user_paths :
               TransitionWhere(user_paths[x].path_sequence, r.source, r.target,
                               r.sourceStep, r.targetStep)} }

\* the orders ORDER BY transition_timestamp DESC allows: rows of equal timestamp in any order
RECURSIVE OrderByTimestampDesc(_)
OrderByTimestampDesc(rows) ==
  IF rows = {} THEN {<<>>}
  ELSE UNION { { <<m>> \o o : o \in OrderByTimestampDesc(rows \ {m}) } :
               m \in {x \in rows : \A y \in rows : x.transition_timestamp >= y.transition_timestamp} }

\* a plausible slip: the page starts at row offset, not after it
LimitOffset_FromOffset(rows, limit, offset) ==
  SubSeq(rows, IF offset = 0 THEN 1 ELSE offset,
         IF Len(rows) < offset + limit THEN Len(rows) ELSE offset + limit)

\* LIMIT limit OFFSET offset
LimitOffset(rows, limit, offset) ==
  SubSeq(rows, offset + 1, IF Len(rows) < offset + limit THEN Len(rows) ELSE offset + limit)

\* SELECT count(DISTINCT session_id) AS total FROM user_paths WHERE ...
CountTotal(user_paths, r) ==
  Cardinality({sid \in DOMAIN user_paths :
                 TransitionWhere(user_paths[sid].path_sequence, r.source, r.target,
                                 r.sourceStep, r.targetStep)})

\* Math.ceil(total / limitNum)
CeilDiv(a, b) == (a + b - 1) \div b

TransitionRows(r) ==
  {e \in store : PathScanWhere(e, r.filters, includeEventsInJourney(r.includeEvents),
                               excludedEventNames(r.excludeEventNames))}

\* the message of the error the store throws for an OFFSET it cannot take
S_offset == <<"o","f","f","s","e","t">>

\* the message of the error a failed trait lookup throws
S_traits == <<"t","r","a","i","t","s">>

\* the handler up to the page of sessions: validation, then the page scan
\* the events the materializer joins to a matching session: all the events of the session
\* for the site in the time range, whatever their type and whatever the filter says
JoinedEvents(sid) == {e \in store : e.session_id = sid}

\* MIN(e.timestamp) and MAX(e.timestamp) over the joined events
MinTimestamp(events) == CHOOSE t \in {e.timestamp : e \in events} : \A e \in events : t <= e.timestamp
MaxTimestamp(events) == CHOOSE t \in {e.timestamp : e \in events} : \A e \in events : t >= e.timestamp

\* the values argMax(e.country, e.timestamp) can give: the country of any of the latest events
argMaxCountry(events) == {e.country : e \in {x \in events : x.timestamp = MaxTimestamp(events)}}

\* the values argMinIf(e.pathname, e.timestamp, e.type = 'pageview') can give: the pathname of
\* any of the earliest page views, '' when the session has none
argMinIfPathname(events) ==
  LET views == {e \in events : e.type = S_pageview}
  IN  IF views = {} THEN {EmptyStr}
      ELSE {e.pathname : e \in {x \in views : x.timestamp = MinTimestamp(views)}}

\* a plausible slip: the session's span is taken over the events of the path only
SessionSpanEvents_PathOnly(sid, r) == {e \in TransitionRows(r) : e.session_id = sid}

\* the events MIN and MAX run over
SessionSpanEvents(sid, r) == JoinedEvents(sid)

\* the rows the materializer can give for one matching session
SummaryRows(m, r) ==
  { [session_id |-> m.session_id, source_index |-> m.source_index,
     target_index |-> m.target_index, transition_timestamp |-> m.transition_timestamp,
     country |-> c,
     session_start |-> MinTimestamp(SessionSpanEvents(m.session_id, r)),
     session_end |-> MaxTimestamp(SessionSpanEvents(m.session_id, r)),
     session_duration |-> MaxTimestamp(SessionSpanEvents(m.session_id, r))
                          - MinTimestamp(SessionSpanEvents(m.session_id, r)),
     entry_page |-> p,
     pageviews |-> Cardinality({e \in JoinedEvents(m.session_id) : e.type = S_pageview}),
     events |-> Cardinality({e \in JoinedEvents(m.session_id) : e.type = S_custom_event})] :
    c \in argMaxCountry(JoinedEvents(m.session_id)),
    p \in argMinIfPathname(JoinedEvents(m.session_id)) }

\* the pages the materializer can give for the ranked rows of a page
RECURSIVE Materialized(_, _)
Materialized(rows, r) ==
  IF rows = <<>> THEN {<<>>}
  ELSE { <<s>> \o rest : s \in SummaryRows(Head(rows), r), rest \in Materialized(Tail(rows), r) }

TransitionPageScan(requests) ==
  /\ pc = "idle"
  /\ \E r \in requests :
       LET limitNum == parseInt(OrDefault(r.limit, <<"5","0">>))
           pageNum == parseInt(OrDefault(r.page, <<"1">>))
           offset == (pageNum.v - 1) * limitNum.v
       IN  /\ req' = r
           /\ IF ~ Truthy(r.source) \/ ~ Truthy(r.target)
              THEN /\ res' = [status |-> 400, error |-> "source and target are required"]
                   /\ scan' = NoScan
                   /\ pc' = "sent"
              ELSE IF limitNum.nan \/ limitNum.v < 1 \/ limitNum.v > 200
              THEN /\ res' = [status |-> 400, error |-> "limit must be between 1 and 200"]
                   /\ scan' = NoScan
                   /\ pc' = "sent"
              ELSE IF pageNum.nan \/ offset < 0
              THEN \* the page query is sent with this offset; the store rejects an OFFSET that
                   \* is not a non-negative integer, and the catch block answers
                   /\ res' = [status |-> 500, error |-> "Failed to get journey transition sessions",
                              message |-> S_offset]
                   /\ scan' = [query |-> "failed", logged |-> S_offset,
                               query_params |-> [limit |-> limitNum.v,
                                                 offset |-> IF pageNum.nan THEN NaN ELSE Num(offset)]]
                   /\ pc' = "sent"
              ELSE \E outcome \in QueryOutcomes :
                     IF outcome # NoError
                     THEN /\ res' = [status |-> 500,
                                     error |-> "Failed to get journey transition sessions",
                                     message |-> outcome]
                          /\ scan' = [query |-> "failed", logged |-> outcome,
                                      query_params |-> [limit |-> limitNum.v, offset |-> Num(offset)]]
                          /\ pc' = "sent"
                     ELSE \E order \in ScanOrders(TransitionRows(r)) :
                       LET paths == PagePathSequences(order)
                       IN  \E ranked \in OrderByTimestampDesc(MatchingSessions(PageUserPaths(paths), r)) :
                           \E sessions \in Materialized(LimitOffset(ranked, limitNum.v, offset), r) :
                             /\ scan' = [query |-> "page", page_table |-> store, page_order |-> order,
                                         page_paths |-> paths,
                                         sessions |-> sessions,
                                         query_params |-> [limit |-> limitNum.v, offset |-> Num(offset)],
                                         excluded |-> excludedEventNames(r.excludeEventNames),
                                         traits |-> "pending"]
                             /\ res' = NoRes
                             /\ pc' = "page_read"
  /\ UNCHANGED <<ev, labels, store, walk>>

\* what the trait lookup can do: answer, or throw (the trait store is down)
TraitOutcomes == {"resolved", "throws"}

\* the sessions with their traits; no session of the traffic has a resolved identity, so
\* every session carries traits: null
enrichWithTraits(sessions) ==
  [i \in 1..Len(sessions) |->
     [session_id |-> sessions[i].session_id,
      source_index |-> sessions[i].source_index,
      target_index |-> sessions[i].target_index,
      transition_timestamp |-> sessions[i].transition_timestamp,
      country |-> sessions[i].country,
      session_start |-> sessions[i].session_start,
      session_end |-> sessions[i].session_end,
      session_duration |-> sessions[i].session_duration,
      entry_page |-> sessions[i].entry_page,
      pageviews |-> sessions[i].pageviews,
      events |-> sessions[i].events,
      traits |-> Null]]

\* the handler after the page scan: await enrichWithTraits(sessions, siteId), inside the try
EnrichWithTraits ==
  /\ pc = "page_read"
  /\ \E outcome \in TraitOutcomes :
       IF outcome = "throws"
       THEN /\ res' = [status |-> 500, error |-> "Failed to get journey transition sessions",
                       message |-> S_traits]
            /\ scan' = [scan EXCEPT !.traits = "failed"]
            /\ pc' = "sent"
       ELSE /\ res' = NoRes
            /\ scan' = [scan EXCEPT !.traits = "resolved"]
            /\ pc' = "enriched"
  /\ UNCHANGED <<ev, labels, store, req, walk>>

\* a plausible slip: the count scan reads the snapshot of the page scan
CountScanRows_PageSnapshot(r) == {e \in TransitionRows(r) : e \in scan.page_table}

\* the rows the count scan reads: those the table holds when it runs
CountScanRows(r) == TransitionRows(r)

\* the rest of the handler: the count scan and the response
TransitionCountScan ==
  /\ pc = "enriched"
  /\ \E outcome \in QueryOutcomes :
       IF outcome # NoError
       THEN /\ res' = [status |-> 500, error |-> "Failed to get journey transition sessions",
                       message |-> outcome]
            /\ scan' = [query |-> "failed", logged |-> outcome, query_params |-> scan.query_params]
            /\ pc' = "sent"
       ELSE \E order \in ScanOrders(CountScanRows(req)) :
         LET paths == CountPathSequences(order)
             total == CountTotal(CountUserPaths(paths), req)
             limitNum == parseInt(OrDefault(req.limit, <<"5","0">>)).v
         IN  /\ scan' = [query |-> "count", page_table |-> scan.page_table,
                         page_order |-> scan.page_order, page_paths |-> scan.page_paths,
                         sessions |-> scan.sessions,
                         query_params |-> scan.query_params,
                         excluded |-> scan.excluded,
                         traits |-> scan.traits,
                         count_table |-> store, count_order |-> order, count_paths |-> paths]
             /\ res' = [status |-> 200,
                        data |-> enrichWithTraits(scan.sessions),
                        pagination |-> [total |-> total,
                                        page |-> parseInt(OrDefault(req.page, <<"1">>)).v,
                                        limit |-> limitNum,
                                        totalPages |-> CeilDiv(total, limitNum)]]
             /\ pc' = "sent"
  /\ UNCHANGED <<ev, labels, store, req, walk>>

(***************************************************************************)
(* getJourneyStepEventDetails                                              *)
(***************************************************************************)
Quote == "\""

\* the props column of an event without properties
S_emptyObject == <<"{","}">>

MinOf(a, b) == IF a < b THEN a ELSE b

\* the members of a flat JSON object from position i on, where a key opens: each a pair of the
\* key and the raw text of its value (a string literal with its quotes, or a bare token)
RECURSIVE MembersFrom(_, _)
MembersFrom(t, i) ==
  IF i + 3 > Len(t) \/ t[i] # Quote THEN <<>>
  ELSE LET k == NextSep(t, Quote, i + 1)
       IN  IF k + 2 > Len(t) \/ t[k + 1] # ":" THEN <<>>
           ELSE LET v == k + 2
                    w == IF t[v] = Quote THEN NextSep(t, Quote, v + 1)
                         ELSE MinOf(NextSep(t, ",", v), NextSep(t, "}", v)) - 1
                IN  IF w >= Len(t) THEN <<>>
                    ELSE <<[key |-> SubSeq(t, i + 1, k - 1), raw |-> SubSeq(t, v, w)]>>
                         \o (IF t[w + 1] = "," THEN MembersFrom(t, w + 2) ELSE <<>>)

\* ClickHouse JSONExtractKeysAndValuesRaw(CAST(props AS String)): nothing for a text that is
\* not an object
JSONExtractKeysAndValuesRaw(t) ==
  IF Len(t) < 2 \/ t[1] # "{" \/ t[Len(t)] # "}" THEN <<>> ELSE MembersFrom(t, 2)

\* replaceRegexpAll(kv.2, '^"|"$', ''): a quote at the start and a quote at the end go
replaceRegexpAll(s) ==
  LET a == IF s # <<>> /\ s[1] = Quote THEN Tail(s) ELSE s
  IN  IF a # <<>> /\ a[Len(a)] = Quote THEN SubSeq(a, 1, Len(a) - 1) ELSE a

\* the characters of the property keys, in the order of their codes
CharCodes ==
  <<"0","1","2","3","4","5","6","7","8","9","_",
    "a","b","c","d","e","f","g","h","i","j","k","l","m",
    "n","o","p","q","r","s","t","u","v","w","x","y","z">>

CharCode(c) == CHOOSE i \in 1..Len(CharCodes) : CharCodes[i] = c

\* a < b for two strings, in the order ORDER BY puts them
RECURSIVE StringLess(_, _)
StringLess(a, b) ==
  IF b = <<>> THEN FALSE
  ELSE IF a = <<>> THEN TRUE
  ELSE IF Head(a) = Head(b) THEN StringLess(Tail(a), Tail(b))
  ELSE CharCode(Head(a)) < CharCode(Head(b))

\* ClickHouse toString of a non-negative number
RECURSIVE toString(_)
toString(n) ==
  LET d == <<"0","1","2","3","4","5","6","7","8","9">>[(n % 10) + 1]
  IN  IF n < 10 THEN <<d>> ELSE toString(n \div 10) \o <<d>>

\* stepIndex ? parseInt(stepIndex, 10) : null, then + 1 unless null
TargetStepPosition(stepIndex) ==
  IF ~ Truthy(stepIndex) THEN [given |-> FALSE, n |-> Num(0)]
  ELSE LET stepIndexNum == parseInt(stepIndex)
       IN  [given |-> TRUE,
            n |-> IF stepIndexNum.nan THEN NaN ELSE Num(stepIndexNum.v + 1)]

\* the WHERE of numbered_events: the filter and the types; every interaction counts as a step
DetailScanWhere(e, filters) ==
  /\ FilterStatement(filters, e)
  /\ \/ e.type = S_pageview
     \/ e.type \in InteractionTypes

DetailRows(r) == {e \in store : DetailScanWhere(e, r.filters)}

\* row_number() OVER (PARTITION BY session_id ORDER BY timestamp): the rank of row i among
\* the rows of its session, rows of equal timestamp numbered in the order the scan met them
row_number(order, i) ==
  Cardinality({j \in 1..i : order[j].session_id = order[i].session_id})

\* numbered_events of the histogram scan
PropsNumberedEvents(order) ==
  [i \in 1..Len(order) |->
     [row |-> order[i], step_label |-> DetailPropsStepLabel(order[i]),
      step_number |-> row_number(order, i)]]

\* numbered_events of the event-list scan
ListNumberedEvents(order) ==
  [i \in 1..Len(order) |->
     [row |-> order[i], step_label |-> DetailEventsStepLabel(order[i]),
      step_number |-> row_number(order, i)]]

\* a plausible slip: the position is compared 0-based
TargetStepWhere_ZeroBased(n, stepLabel, position) ==
  /\ n.step_label = stepLabel
  /\ position.given => (~ position.n.nan /\ n.step_number = position.n.v - 1)

\* step_label = '${stepLabel}' AND step_number = ${targetStepPosition}, the latter when given
TargetStepWhere(n, stepLabel, position) ==
  /\ n.step_label = stepLabel
  /\ position.given => (~ position.n.nan /\ n.step_number = position.n.v)

\* target_step_events, and the rows the event-list scan keeps
TargetStepEvents(numbered, r) ==
  SelectSeq(numbered, LAMBDA n : TargetStepWhere(n, r.stepLabel, TargetStepPosition(r.stepIndex)))

\* events_with_props: props != '{}' AND props IS NOT NULL
EventsWithProps(target) ==
  SelectSeq(target, LAMBDA n : n.row.props # S_emptyObject /\ n.row.props # Null)

\* ARRAY JOIN JSONExtractKeysAndValuesRaw(...) AS kv: one row per member of each event
ArrayJoinKeysAndValues(with_props) ==
  UNION { { [at |-> i, member |-> j,
             propertyKey |-> JSONExtractKeysAndValuesRaw(with_props[i].row.props)[j].key,
             propertyValue |->
               replaceRegexpAll(JSONExtractKeysAndValuesRaw(with_props[i].row.props)[j].raw)] :
            j \in 1..Len(JSONExtractKeysAndValuesRaw(with_props[i].row.props)) } :
          i \in 1..Len(with_props) }

\* GROUP BY propertyKey, propertyValue with count()
HistogramGroups(target) ==
  LET kvs == ArrayJoinKeysAndValues(EventsWithProps(target))
  IN  { [propertyKey |-> g[1], propertyValue |-> g[2],
         count |-> Cardinality({kv \in kvs : kv.propertyKey = g[1] /\ kv.propertyValue = g[2]})] :
        g \in {<<kv.propertyKey, kv.propertyValue>> : kv \in kvs} }

\* a plausible slip: the rows come by count only
HistogramRowLeq_CountOnly(a, b) == a.count >= b.count

\* ORDER BY propertyKey ASC, count DESC
HistogramRowLeq(a, b) ==
  \/ StringLess(a.propertyKey, b.propertyKey)
  \/ a.propertyKey = b.propertyKey /\ a.count >= b.count

\* the orders ORDER BY propertyKey ASC, count DESC can give: rows that tie come in any order
RECURSIVE HistogramOrders(_)
HistogramOrders(groups) ==
  IF groups = {} THEN {<<>>}
  ELSE UNION { { <<g>> \o o : o \in HistogramOrders(groups \ {g}) } :
               g \in {x \in groups : \A y \in groups : HistogramRowLeq(x, y)} }

\* LIMIT 500 of the histogram scan
HistogramLimit == 500

\* LIMIT 100 of the event-list scan
EventListLimit == 100

\* the rows the histogram scan can return
HistogramRows(target) ==
  { Limit(o, HistogramLimit) : o \in HistogramOrders(HistogramGroups(target)) }

\* Array.prototype.sort((a, b) => b.count - a.count): stable, larger counts first
RECURSIVE InsertByCount(_, _)
InsertByCount(sorted, x) ==
  IF sorted = <<>> THEN <<x>>
  ELSE IF Head(sorted).count >= x.count THEN <<Head(sorted)>> \o InsertByCount(Tail(sorted), x)
  ELSE <<x>> \o sorted

RECURSIVE SortByCountDesc(_)
SortByCountDesc(list) ==
  IF list = <<>> THEN <<>>
  ELSE InsertByCount(SortByCountDesc(SubSeq(list, 1, Len(list) - 1)), list[Len(list)])

\* groupedProperties: for each key of the rows, its { value, count } in row order, then sorted
GroupedProperties(rows) ==
  [key \in {rows[i].propertyKey : i \in 1..Len(rows)} |->
     SortByCountDesc(
       [i \in 1..Len(SelectSeq(rows, LAMBDA g : g.propertyKey = key)) |->
          [value |-> SelectSeq(rows, LAMBDA g : g.propertyKey = key)[i].propertyValue,
           count |-> SelectSeq(rows, LAMBDA g : g.propertyKey = key)[i].count]])]

\* the orders ORDER BY timestamp DESC can give: rows of equal timestamp come in any order
RECURSIVE EventListOrders(_)
EventListOrders(rows) ==
  IF rows = {} THEN {<<>>}
  ELSE UNION { { <<n>> \o o : o \in EventListOrders(rows \ {n}) } :
               n \in {x \in rows : \A y \in rows : x.row.timestamp >= y.row.timestamp} }

\* item.user_id || ""
OrEmpty(s) == IF s = Null \/ s = Undefined THEN EmptyStr ELSE s

\* the events of the response, from the rows of the event-list scan
JourneyStepEvents(rows) ==
  [i \in 1..Len(rows) |->
     [timestamp |-> toString(rows[i].row.timestamp),
      user_id |-> OrEmpty(rows[i].row.user_id),
      identified_user_id |-> OrEmpty(rows[i].row.identified_user_id),
      session_id |-> rows[i].row.session_id]]

\* the handler up to its first await: the 400, then the histogram scan
StepDetailHistogramScan(requests) ==
  /\ pc = "idle"
  /\ \E r \in requests :
       /\ req' = r
       /\ IF ~ Truthy(r.stepLabel)
          THEN /\ res' = [status |-> 400, error |-> "stepLabel parameter is required"]
               /\ scan' = NoScan
               /\ pc' = "sent"
          ELSE \E outcome \in QueryOutcomes :
            IF outcome # NoError
            THEN /\ res' = [status |-> 500, error |-> "Failed to get journey step event details"]
                 /\ scan' = [query |-> "failed", logged |-> outcome]
                 /\ pc' = "sent"
            ELSE \E order \in ScanOrders(DetailRows(r)) :
                 \E rows \in HistogramRows(TargetStepEvents(PropsNumberedEvents(order), r)) :
                   /\ scan' = [query |-> "histogram", hist_table |-> store,
                               hist_order |-> order, hist_rows |-> rows]
                   /\ res' = NoRes
                   /\ pc' = "histogram_read"
  /\ UNCHANGED <<ev, labels, store, walk>>

\* the rest of the handler: the event-list scan and the response
StepDetailEventsScan ==
  /\ pc = "histogram_read"
  /\ \E outcome \in QueryOutcomes :
       IF outcome # NoError
       THEN /\ res' = [status |-> 500, error |-> "Failed to get journey step event details"]
            /\ scan' = [query |-> "failed", logged |-> outcome]
            /\ pc' = "sent"
       ELSE \E order \in ScanOrders(DetailRows(req)) :
            \E list \in EventListOrders(Range(TargetStepEvents(ListNumberedEvents(order), req))) :
              /\ scan' = [query |-> "events", hist_table |-> scan.hist_table,
                          hist_order |-> scan.hist_order, hist_rows |-> scan.hist_rows,
                          list_table |-> store, list_order |-> order,
                          list_rows |-> Limit(list, EventListLimit)]
              /\ res' = [status |-> 200,
                         properties |-> GroupedProperties(scan.hist_rows),
                         events |-> JourneyStepEvents(Limit(list, EventListLimit))]
              /\ pc' = "sent"
  /\ UNCHANGED <<ev, labels, store, req, walk>>

\* the handler of src/server/src/api/analytics: the histogram scan and the response, which
\* holds the properties only
StepDetailProperties(requests) ==
  /\ pc = "idle"
  /\ \E r \in requests :
       /\ req' = [r EXCEPT !.handler = "stepProperties"]
       /\ IF ~ Truthy(r.stepLabel)
          THEN /\ res' = [status |-> 400, error |-> "stepLabel parameter is required"]
               /\ scan' = NoScan
          ELSE \E outcome \in QueryOutcomes :
            IF outcome # NoError
            THEN /\ res' = [status |-> 500, error |-> "Failed to get journey step event details"]
                 /\ scan' = [query |-> "failed", logged |-> outcome]
            ELSE \E order \in ScanOrders(DetailRows(r)) :
                 \E rows \in HistogramRows(TargetStepEvents(PropsNumberedEvents(order), r)) :
                   /\ scan' = [query |-> "histogram", hist_table |-> store,
                               hist_order |-> order, hist_rows |-> rows]
                   /\ res' = [status |-> 200, properties |-> GroupedProperties(rows)]
       /\ pc' = "sent"
  /\ UNCHANGED <<ev, labels, store, walk>>

(***************************************************************************)
(* The traffic and the requests of the checked runs                        *)
(***************************************************************************)
P_a == <<"/","a">>
P_b == <<"/","b">>
P_x == <<"/","x">>
N_x == <<"x">>
US == <<"U","S">>
DE == <<"D","E">>

Pageview(sid, ts, pathname, country) ==
  [session_id |-> sid, timestamp |-> ts, type |-> S_pageview, pathname |-> pathname,
   event_name |-> EmptyStr, country |-> country]

CustomEvent(sid, ts, pathname, name, country) ==
  [session_id |-> sid, timestamp |-> ts, type |-> S_custom_event, pathname |-> pathname,
   event_name |-> name, country |-> country]

\* the events the site may receive: session 1 walks /a, /x, /b; session 2 walks /a, /b, /a
\* and fires a custom event together with /b; session 3 walks /b (seen from another country),
\* then /a, and reloads /a
Universe ==
  { Pageview(1, 1, P_a, US), Pageview(1, 2, P_x, US), Pageview(1, 3, P_b, US),
    Pageview(2, 1, P_a, US), Pageview(2, 2, P_b, US), CustomEvent(2, 2, P_b, N_x, US),
    Pageview(2, 3, P_a, US),
    Pageview(3, 1, P_b, DE), Pageview(3, 2, P_a, US), Pageview(3, 3, P_a, US) }

NoStepFilters == [json |-> "undefined", entries |-> <<>>]
StepFilter(step, path) == [json |-> "object", entries |-> <<[step |-> step, path |-> path]>>]
MalformedStepFilters == [json |-> "malformed", entries |-> <<>>]

S_false == <<"f","a","l","s","e">>

\* journeys requests: steps, limit and step filters varied on the default journey options, the
\* journey options varied on fixed steps, and requests the handler rejects
JourneysRequests ==
  [handler : {"journeys"},
   steps : {<<"2">>, <<"3">>, Undefined},
   limit : {<<"1">>, Undefined},
   stepFilters : {NoStepFilters, StepFilter(<<"0">>, P_b), StepFilter(<<"2">>, P_b),
                  StepFilter(<<"2">>, EmptyStr), StepFilter(<<"2">>, <<"*","*">>)},
   includeEvents : {Undefined},
   excludeEventNames : {Undefined},
   filters : {Undefined}]
  \cup
  [handler : {"journeys"},
   steps : {<<"2">>},
   limit : {Undefined},
   stepFilters : {NoStepFilters},
   includeEvents : {Undefined, S_false},
   excludeEventNames : {Undefined, N_x, <<"[","\"","x","\"","]">>},
   filters : {Undefined, US}]
  \cup
  [handler : {"journeys"},
   steps : {<<"1">>, <<"x">>},
   limit : {<<"0">>, Undefined},
   stepFilters : {NoStepFilters, MalformedStepFilters},
   includeEvents : {Undefined},
   excludeEventNames : {Undefined},
   filters : {Undefined}]
  \cup
  [handler : {"journeys"},
   steps : {Undefined},
   limit : {<<"0">>, Undefined},
   stepFilters : {MalformedStepFilters},
   includeEvents : {Undefined},
   excludeEventNames : {Undefined},
   filters : {Undefined}]

\* transition requests: the pair of labels, the positions, the page and the limit varied, the
\* journey options varied on a fixed pair, and requests the handler rejects
TransitionRequests ==
  [handler : {"transition"},
   source : {P_a, P_b, P_x},
   target : {P_a, P_b},
   sourceStep : {Undefined, <<"0">>, <<"1">>},
   targetStep : {Undefined, <<"1">>, <<"2">>},
   includeEvents : {Undefined},
   excludeEventNames : {Undefined},
   filters : {Undefined},
   limit : {Undefined},
   page : {Undefined}]
  \cup
  [handler : {"transition"},
   source : {P_a},
   target : {P_b},
   sourceStep : {Undefined},
   targetStep : {Undefined},
   includeEvents : {Undefined},
   excludeEventNames : {Undefined},
   filters : {Undefined},
   limit : {<<"1">>, <<"2">>},
   page : {Undefined, <<"2">>, <<"3">>}]
  \cup
  [handler : {"transition"},
   source : {P_a, S_eventColon \o S_custom_event \o <<":","x">>},
   target : {P_b},
   sourceStep : {Undefined},
   targetStep : {Undefined},
   includeEvents : {Undefined, S_false},
   excludeEventNames : {Undefined, N_x},
   filters : {Undefined, US},
   limit : {Undefined},
   page : {Undefined}]
  \cup
  [handler : {"transition"},
   source : {P_a, Undefined},
   target : {P_b, EmptyStr},
   sourceStep : {Undefined},
   targetStep : {Undefined},
   includeEvents : {Undefined},
   excludeEventNames : {Undefined},
   filters : {Undefined},
   limit : {<<"0">>, <<"2","0","1">>, Undefined},
   page : {Undefined}]

\* the requests of the runs that hold both handlers
BothJourneysRequests ==
  {r \in JourneysRequests :
     /\ r.stepFilters = NoStepFilters
     /\ r.excludeEventNames = Undefined
     /\ r.steps \in {<<"2">>, <<"3">>}}

BothTransitionRequests ==
  {r \in TransitionRequests :
     /\ r.sourceStep = Undefined /\ r.targetStep = Undefined
     /\ r.excludeEventNames = Undefined
     /\ r.limit \in {<<"2">>, Undefined}
     /\ r.page \in {<<"2">>, Undefined}
     /\ r.source # P_x
     /\ Truthy(r.source) /\ Truthy(r.target)}

InitStore ==
  /\ ev = [type |-> S_pageview, pathname |-> EmptyStr, event_name |-> EmptyStr]
  /\ labels = [s \in Scans |-> NoLabel]
  /\ store = {}
  /\ pc = "idle"
  /\ req = NoReq
  /\ scan = NoScan
  /\ res = NoRes
  /\ walk = <<>>

NextJourneys ==
  \/ Ingest(Universe)
  \/ GetJourneys(JourneysRequests)
  \/ Deliver

SpecJourneys == InitStore /\ [][NextJourneys]_vars

NextTransitions ==
  \/ Ingest(Universe)
  \/ TransitionPageScan(TransitionRequests)
  \/ EnrichWithTraits
  \/ TransitionCountScan
  \/ Deliver

SpecTransitions == InitStore /\ [][NextTransitions]_vars

Next ==
  \/ Ingest(Universe)
  \/ GetJourneys(BothJourneysRequests)
  \/ TransitionPageScan(BothTransitionRequests)
  \/ EnrichWithTraits
  \/ TransitionCountScan
  \/ Deliver

Spec == InitStore /\ [][Next]_vars

(***************************************************************************)
(* A client paging through the sessions of a transition                    *)
(***************************************************************************)
\* traffic with a reload before a source step, and with source steps of equal timestamp:
\* session 1 loads /a, reloads it, then walks /x, /b; sessions 2 and 3 walk /x, /b together
PagingUniverse ==
  { Pageview(1, 0, P_a, US), Pageview(1, 1, P_a, US), Pageview(1, 2, P_x, US),
    Pageview(1, 3, P_b, US),
    Pageview(2, 1, P_x, US), Pageview(2, 2, P_b, US),
    Pageview(3, 1, P_x, US), Pageview(3, 2, P_b, US) }

\* the page number as the client puts it in the query string
PageParam(n) == CHOOSE p \in {<<c>> : c \in DigitChars} : DigitVal(p[1]) = n

PagingRequests ==
  [handler : {"transition"},
   source : {P_x, P_a},
   target : {P_b},
   sourceStep : {Undefined},
   targetStep : {Undefined},
   includeEvents : {Undefined},
   excludeEventNames : {Undefined},
   filters : {Undefined},
   limit : {<<"1">>, <<"2">>},
   page : {PageParam(1), PageParam(2), PageParam(3)}]

\* the request the client sends next: page 1 of a transition, then the following page of the
\* same transition with the same limit while the last response announces more pages
NextPageRequests ==
  {r \in PagingRequests :
     IF walk = <<>> THEN r.page = PageParam(1)
     ELSE /\ r.source = walk[1].source /\ r.target = walk[1].target
          /\ r.limit = walk[1].limit
          /\ Len(walk) < walk[Len(walk)].totalPages
          /\ r.page = PageParam(Len(walk) + 1)}

\* the client receives the response and, when it is a page, shows it
ReceivePage ==
  /\ pc = "sent"
  /\ walk' = IF res.status = 200
             THEN Append(walk, [source |-> req.source, target |-> req.target,
                                limit |-> req.limit, page |-> res.pagination.page,
                                ids |-> [i \in 1..Len(res.data) |-> res.data[i].session_id],
                                total |-> res.pagination.total,
                                totalPages |-> res.pagination.totalPages])
             ELSE walk
  /\ pc' = "idle"
  /\ req' = NoReq
  /\ scan' = NoScan
  /\ res' = NoRes
  /\ UNCHANGED <<ev, labels, store>>

\* events arrive before the client starts paging, none while it pages
IngestBeforePaging ==
  /\ walk = <<>>
  /\ Ingest(PagingUniverse)

NextPaging ==
  \/ IngestBeforePaging
  \/ TransitionPageScan(NextPageRequests)
  \/ EnrichWithTraits
  \/ TransitionCountScan
  \/ ReceivePage

SpecPaging == InitStore /\ [][NextPaging]_vars

(***************************************************************************)
(* Session paths                                                           *)
(***************************************************************************)
\* the positions of l that start a run of equal labels
RunStarts(l) == {i \in 1..Len(l) : i = 1 \/ l[i] # l[i - 1]}

\* p is l with every run of consecutive equal labels collapsed to one entry
IsRunCollapse(p, l) ==
  /\ Len(p) = Cardinality(RunStarts(l))
  /\ \A i \in RunStarts(l) : p[Cardinality({j \in RunStarts(l) : j <= i})] = l[i]

\* order lists every row of rows once, each session's rows by non-decreasing timestamp
IsTimestampOrder(order, rows) ==
  /\ Len(order) = Cardinality(rows)
  /\ Range(order) = rows
  /\ \A i, j \in 1..Len(order) :
       (i < j /\ order[i].session_id = order[j].session_id)
         => order[i].timestamp <= order[j].timestamp

\* the rows a request's path scans read from a table
PathRows(table, r) ==
  {e \in table : PathScanWhere(e, r.filters, includeEventsInJourney(r.includeEvents),
                               excludedEventNames(r.excludeEventNames))}

\* paths holds, for every session with a row, the run-collapse of its labels in scan order
PathsCollapse(order, rows, paths, journeysLabeler) ==
  /\ IsTimestampOrder(order, rows)
  /\ DOMAIN paths = SessionsOf(rows)
  /\ \A sid \in DOMAIN paths :
       IsRunCollapse(paths[sid],
                     IF journeysLabeler THEN JourneysGroupArray(SessionRows(order, sid))
                                        ELSE TransitionGroupArray(SessionRows(order, sid)))

\* C4: the path every scan builds for a session is the session's labels in timestamp order
\* with each run of consecutive equal labels collapsed to one entry; repeats that are not
\* consecutive stay separate entries.
C4_PathIsRunCollapse ==
  /\ scan.query = "journeys" =>
       PathsCollapse(scan.order, PathRows(store, req), scan.path_sequence, TRUE)
  /\ scan.query \in {"page", "count"} =>
       PathsCollapse(scan.page_order, PathRows(scan.page_table, req),
                     [sid \in DOMAIN scan.page_paths |-> scan.page_paths[sid].path_sequence],
                     FALSE)
  /\ scan.query = "count" =>
       PathsCollapse(scan.count_order, PathRows(scan.count_table, req),
                     [sid \in DOMAIN scan.count_paths |-> scan.count_paths[sid].path_sequence],
                     FALSE)

\* a scan that collapsed the reload of /a in session 3 and kept both visits of /a in session 2
C4_Witness ==
  /\ scan.query = "journeys"
  /\ {2, 3} \subseteq DOMAIN scan.path_sequence
  /\ Len(SessionRows(scan.order, 3)) = 3
  /\ scan.path_sequence[3] = <<P_b, P_a>>
  /\ scan.path_sequence[2] = <<P_a, P_b, P_a>>

(***************************************************************************)
(* Journeys                                                                *)
(***************************************************************************)
JourneysAnswered == req.handler = "journeys" /\ res.status = 200

TransitionAnswered == req.handler = "transition" /\ res.status = 200

\* the steps of the request in flight, as a number
StepsOf(r) == parseInt(OrDefault(r.steps, <<"3">>)).v

LimitOf(r) == parseInt(OrDefault(r.limit, <<"1","0","0">>)).v

\* the first min(n, length) entries of a path
Prefix(path, n) == [i \in 1..(IF Len(path) < n THEN Len(path) ELSE n) |-> path[i]]

\* the sessions of the journeys scan whose collapsed path has at least 2 entries
LongSessions == {sid \in DOMAIN scan.path_sequence : Len(scan.path_sequence[sid]) >= 2}

ShortSessions == DOMAIN scan.path_sequence \ LongSessions

\* the sessions with at least 2 entries whose prefix is the journey
SessionsOfJourney(path) ==
  {sid \in LongSessions : Prefix(scan.path_sequence[sid], StepsOf(req)) = path}

RECURSIVE SumCounts(_)
SumCounts(journeys) ==
  IF journeys = <<>> THEN 0 ELSE Head(journeys).count + SumCounts(Tail(journeys))

\* the first-occurrence index of a label in a path, 0 when it does not occur
FirstOccurrence(path, label) ==
  IF \E i \in 1..Len(path) : path[i] = label
  THEN CHOOSE i \in 1..Len(path) : path[i] = label /\ \A j \in 1..(i - 1) : path[j] # label
  ELSE 0

\* a session qualifies for the transition of request r
Qualifies(path, r) ==
  /\ FirstOccurrence(path, r.source) > 0
  /\ FirstOccurrence(path, r.target) > 0
  /\ FirstOccurrence(path, r.source) < FirstOccurrence(path, r.target)
  /\ r.sourceStep # Undefined =>
       FirstOccurrence(path, r.source) = parseInt(r.sourceStep).v + 1
  /\ r.targetStep # Undefined =>
       FirstOccurrence(path, r.target) = parseInt(r.targetStep).v + 1

\* C5: a session whose collapsed path has fewer than 2 entries is counted in no returned
\* journey, and is neither in the data nor in the total of a transition response.
C5_ShortSessionsExcluded ==
  /\ JourneysAnswered =>
       \A i \in 1..Len(res.journeys) :
         /\ res.journeys[i].count = Cardinality(SessionsOfJourney(res.journeys[i].path))
         /\ \A sid \in ShortSessions :
              Prefix(scan.path_sequence[sid], StepsOf(req)) # res.journeys[i].path
  /\ TransitionAnswered =>
       /\ \A i \in 1..Len(res.data) :
            Len(scan.page_paths[res.data[i].session_id].path_sequence) >= 2
       /\ res.pagination.total =
            Cardinality({sid \in DOMAIN scan.count_paths :
                           /\ Len(scan.count_paths[sid].path_sequence) >= 2
                           /\ Qualifies(scan.count_paths[sid].path_sequence, req)})

\* journeys are returned while session 3, with a reload of /a only, has a path of one entry
C5_Witness ==
  /\ JourneysAnswered
  /\ Len(res.journeys) >= 1
  /\ 3 \in ShortSessions
  /\ Len(SessionRows(scan.order, 3)) = 2

\* C6: without step filters and with a limit that returns every journey, the counts of the
\* returned journeys sum to the number of sessions whose collapsed path has at least 2
\* entries, and each such session is counted in exactly one journey, the one equal to the
\* first min(steps, length) entries of its path.
C6_CountsPartitionSessions ==
  (JourneysAnswered /\ req.stepFilters = NoStepFilters /\ req.limit = Undefined) =>
    /\ SumCounts(res.journeys) = Cardinality(LongSessions)
    /\ \A sid \in LongSessions :
         Cardinality({i \in 1..Len(res.journeys) :
                        res.journeys[i].path = Prefix(scan.path_sequence[sid], StepsOf(req))}) = 1
    /\ \A i \in 1..Len(res.journeys) :
         res.journeys[i].count = Cardinality(SessionsOfJourney(res.journeys[i].path))

\* two journeys, one of them the 2-step prefix of a 3-step path, next to a one-entry session
C6_Witness ==
  /\ JourneysAnswered /\ req.stepFilters = NoStepFilters /\ req.limit = Undefined
  /\ req.steps = <<"2">>
  /\ Len(res.journeys) = 2
  /\ SumCounts(res.journeys) = 2
  /\ \E sid \in LongSessions : Len(scan.path_sequence[sid]) = 3
  /\ ShortSessions # {}

\* the distinct sessions with at least one event that meets the filter of request r
FilteredSessions(table, r) ==
  {sid \in SessionsOf(table) :
     \E e \in table : e.session_id = sid /\ (r.filters = Undefined \/ e.country = r.filters)}

\* C7: each journey's percentage is 100 * count / N, N the number of distinct sessions with
\* an event that meets the filter, whatever their path length, includeEvents and
\* excludeEventNames.
C7_Percentage ==
  JourneysAnswered =>
    \A i \in 1..Len(res.journeys) :
      /\ res.journeys[i].percentage.den > 0
      /\ res.journeys[i].percentage.num * Cardinality(FilteredSessions(store, req))
           = 100 * res.journeys[i].count * res.journeys[i].percentage.den

\* one journey of one session out of three that meet the filter: one has a one-entry path,
\* one has only an event that includeEvents = false leaves out
C7_Witness ==
  /\ JourneysAnswered
  /\ req.filters = US /\ req.includeEvents = S_false
  /\ \E e \in store : e.country = DE
  /\ Len(res.journeys) = 1
  /\ res.journeys[1].count = 1
  /\ res.journeys[1].percentage = [num |-> 100, den |-> 3]
  /\ Cardinality(DOMAIN scan.path_sequence) = 2

\* the journeys of the scan that pass the step filters of the request
PassingJourneys ==
  {j \in {Prefix(scan.path_sequence[sid], StepsOf(req)) : sid \in LongSessions} :
     stepFilterConditions(j, req.stepFilters.entries)}

ReturnedPaths == {res.journeys[i].path : i \in 1..Len(res.journeys)}

\* C8: the journeys come in non-increasing order of count, at most limit of them, and they
\* are the limit highest-count journeys among those passing the step filters.
C8_RankedAndLimited ==
  JourneysAnswered =>
    /\ \A i, k \in 1..Len(res.journeys) :
         i < k => res.journeys[i].count >= res.journeys[k].count
    /\ Len(res.journeys) =
         (IF Cardinality(PassingJourneys) < LimitOf(req)
          THEN Cardinality(PassingJourneys) ELSE LimitOf(req))
    /\ Cardinality(ReturnedPaths) = Len(res.journeys)
    /\ ReturnedPaths \subseteq PassingJourneys
    /\ \A i \in 1..Len(res.journeys) :
         /\ res.journeys[i].count = Cardinality(SessionsOfJourney(res.journeys[i].path))
         /\ \A j \in PassingJourneys \ ReturnedPaths :
              Cardinality(SessionsOfJourney(j)) <= res.journeys[i].count

\* limit 1 and a filter on position 0: the journey returned is not the one of highest count
C8_Witness ==
  /\ JourneysAnswered
  /\ req.limit = <<"1">>
  /\ req.stepFilters = StepFilter(<<"0">>, P_b)
  /\ Len(res.journeys) = 1
  /\ res.journeys[1].count = 1
  /\ \E sid \in LongSessions : Cardinality(SessionsOfJourney(Prefix(scan.path_sequence[sid], StepsOf(req)))) = 2

\* a step matches a filter: by the wildcard pattern when the filter holds '*', else by equality
MatchesFilter(step, filter) ==
  IF includes(filter, "*") THEN GlobMatch(filter, step) ELSE step = filter

\* C9: a returned journey has, for every filtered 0-based position p, a step at p that
\* matches the filter; a journey with fewer than p + 1 steps is not returned.
C9_FilteredPositionsExist ==
  JourneysAnswered =>
    \A i \in 1..Len(res.journeys) :
      \A k \in 1..Len(req.stepFilters.entries) :
        LET p == parseInt(req.stepFilters.entries[k].step).v
        IN  /\ p + 1 <= Len(res.journeys[i].path)
            /\ MatchesFilter(res.journeys[i].path[p + 1], req.stepFilters.entries[k].path)

(***************************************************************************)
(* Transitions                                                             *)
(***************************************************************************)
\* C10: a session qualifies iff both labels occur in its collapsed path, the first source
\* strictly before the first target, each at position sourceStep + 1 / targetStep + 1 when
\* that parameter is supplied (0 included): the data holds qualifying sessions only, all of
\* them when they fit the page, and the total counts them.
C10_Qualification ==
  /\ scan.query \in {"page", "count"} =>
       LET qualifying == {sid \in DOMAIN scan.page_paths :
                            Qualifies(scan.page_paths[sid].path_sequence, req)}
           returned == {scan.sessions[i].session_id : i \in 1..Len(scan.sessions)}
       IN  /\ returned \subseteq qualifying
           /\ (req.page = Undefined /\ req.limit = Undefined) => returned = qualifying
  /\ TransitionAnswered =>
       res.pagination.total =
         Cardinality({sid \in DOMAIN scan.count_paths :
                        Qualifies(scan.count_paths[sid].path_sequence, req)})

\* /a, /x, /b qualifies for /a -> /b at positions 0 and 2
C10_Witness ==
  /\ TransitionAnswered
  /\ req.source = P_a /\ req.target = P_b
  /\ req.sourceStep = <<"0">> /\ req.targetStep = <<"2">>
  /\ Len(res.data) = 1
  /\ res.data[1].session_id = 1
  /\ scan.page_paths[1].path_sequence = <<P_a, P_x, P_b>>
  /\ res.pagination.total = 1

(***************************************************************************)
(* Requests the handlers must validate                                     *)
(***************************************************************************)
\* stepFilters texts JSON.parse takes that are no map from position to pattern
NullStepFilters == [json |-> "null", entries |-> <<>>]
NonStringStepFilters == [json |-> "nonstring", entries |-> <<>>]
NumberStepFilters == [json |-> "number", entries |-> <<>>]

ValidationUniverse ==
  { Pageview(1, 1, P_a, US), Pageview(1, 2, P_b, US), Pageview(1, 3, P_x, US),
    Pageview(2, 1, P_a, US), Pageview(2, 2, P_b, US) }

ValidationJourneysRequests ==
  [handler : {"journeys"},
   steps : {Undefined, EmptyStr, <<"1">>, <<"2">>, <<"1","0">>, <<"1","1">>, <<"x">>, <<"2","x">>},
   limit : {Undefined, <<"0">>, <<"1">>, <<"5","0","0">>, <<"5","0","1">>, <<"x">>},
   stepFilters : {NoStepFilters, StepFilter(<<"0">>, P_a), MalformedStepFilters,
                  NullStepFilters, NonStringStepFilters, NumberStepFilters},
   includeEvents : {Undefined},
   excludeEventNames : {Undefined},
   filters : {Undefined}]

ValidationTransitionRequests ==
  [handler : {"transition"},
   source : {P_a, Undefined, EmptyStr},
   target : {P_b, Undefined},
   sourceStep : {Undefined, <<"x">>},
   targetStep : {Undefined, <<"x">>},
   includeEvents : {Undefined},
   excludeEventNames : {Undefined},
   filters : {Undefined},
   limit : {Undefined, <<"0">>, <<"1">>, <<"2","0","0">>, <<"2","0","1">>, <<"x">>},
   page : {Undefined, <<"0">>, <<"2">>, <<"x">>}]

NextValidation ==
  \/ Ingest(ValidationUniverse)
  \/ GetJourneys(ValidationJourneysRequests)
  \/ TransitionPageScan(ValidationTransitionRequests)
  \/ EnrichWithTraits
  \/ TransitionCountScan
  \/ Deliver

SpecValidation == InitStore /\ [][NextValidation]_vars

(***************************************************************************)
(* Requests that exclude event names                                       *)
(***************************************************************************)
N_y == <<"y">>

\* session 1 loads /a, fires x on it, loads /a again and then /b; session 2 loads /b and fires y
ExcludeUniverse ==
  { Pageview(1, 1, P_a, US), CustomEvent(1, 2, P_a, N_x, US), Pageview(1, 3, P_a, US),
    Pageview(1, 4, P_b, US),
    Pageview(2, 1, P_b, US), CustomEvent(2, 2, P_b, N_y, US) }

\* names a caller may ask to exclude: plain, with white space around, empty, bracketed
ExcludeNames == { N_x, <<" ","x"," ">>, N_y, EmptyStr, <<"[","1","]">> }

NameLists == {<<>>} \cup {<<n>> : n \in ExcludeNames} \cup {<<n, m>> : n, m \in ExcludeNames}

\* Array.prototype.join(",")
RECURSIVE CommaJoin(_)
CommaJoin(names) ==
  IF names = <<>> THEN <<>>
  ELSE IF Len(names) = 1 THEN names[1]
  ELSE names[1] \o <<",">> \o CommaJoin(Tail(names))

\* JSON.stringify of an array of strings that need no escape
JSONStringify(names) ==
  <<"[">> \o CommaJoin([i \in 1..Len(names) |-> <<"\"">> \o names[i] \o <<"\"">>]) \o <<"]">>

\* the excludeEventNames texts of the requests: each list of names in both forms
ExcludeTexts ==
  {JSONStringify(names) : names \in NameLists} \cup {CommaJoin(names) : names \in NameLists}

ExcludeJourneysRequests ==
  [handler : {"journeys"},
   steps : {Undefined},
   limit : {Undefined},
   stepFilters : {NoStepFilters},
   includeEvents : {Undefined, S_false},
   excludeEventNames : ExcludeTexts,
   filters : {Undefined}]

ExcludeTransitionRequests ==
  [handler : {"transition"},
   source : {P_a},
   target : {P_b},
   sourceStep : {Undefined},
   targetStep : {Undefined},
   includeEvents : {Undefined, S_false},
   excludeEventNames : ExcludeTexts,
   filters : {Undefined},
   limit : {Undefined},
   page : {Undefined}]

NextExclude ==
  \/ Ingest(ExcludeUniverse)
  \/ GetJourneys(ExcludeJourneysRequests)
  \/ TransitionPageScan(ExcludeTransitionRequests)
  \/ EnrichWithTraits
  \/ TransitionCountScan
  \/ Deliver

SpecExclude == InitStore /\ [][NextExclude]_vars

(***************************************************************************)
(* Transition timestamps and pages                                         *)
(***************************************************************************)
\* the rows of a session in the order the page scan read them
PageRowsOf(sid) == SessionRows(scan.page_order, sid)

\* the timestamp of the row at which label first occurs among a session's rows
FirstLabelTimestamp(rows, label) ==
  rows[CHOOSE i \in 1..Len(rows) :
         /\ stepLabelCase(rows[i]) = label
         /\ \A j \in 1..(i - 1) : stepLabelCase(rows[j]) # label].timestamp

\* the timestamp of the row that starts the i-th run of equal labels
RunStartTimestamp(rows, i) ==
  LET labelsOf == TransitionGroupArray(rows)
  IN  rows[CHOOSE k \in RunStarts(labelsOf) :
             Cardinality({j \in RunStarts(labelsOf) : j <= k}) = i].timestamp

\* C11: the transition timestamp of every returned session is the timestamp of the event at
\* which the source label first occurs in the session, and the timestamps kept with a path
\* are parallel to the collapsed path: as many as steps, the i-th that of the i-th step.
C11_TransitionTimestamp ==
  scan.query \in {"page", "count"} =>
    /\ \A i \in 1..Len(scan.sessions) :
         scan.sessions[i].transition_timestamp =
           FirstLabelTimestamp(PageRowsOf(scan.sessions[i].session_id), req.source)
    /\ \A sid \in DOMAIN scan.page_paths :
         /\ Len(scan.page_paths[sid].timestamps) = Len(scan.page_paths[sid].path_sequence)
         /\ \A i \in 1..Len(scan.page_paths[sid].path_sequence) :
              scan.page_paths[sid].timestamps[i] = RunStartTimestamp(PageRowsOf(sid), i)

\* the sessions a scan's paths qualify for the transition of request r
QualifyingIn(paths, r) ==
  {sid \in DOMAIN paths : Len(paths[sid].path_sequence) >= 2 /\ Qualifies(paths[sid].path_sequence, r)}

\* the session ids of the pages the client was shown, page after page
RECURSIVE ConcatPages(_)
ConcatPages(pages) ==
  IF pages = <<>> THEN <<>> ELSE Head(pages).ids \o ConcatPages(Tail(pages))

\* the client has been shown every page the last response announced
WalkComplete == walk # <<>> /\ Len(walk) = walk[Len(walk)].totalPages

\* the sessions of the table that qualify for the transition the client pages through
WalkQualifying ==
  LET order == CHOOSE o \in ScanOrders(store) : TRUE
  IN  QualifyingIn(PagePathSequences(order),
                   [source |-> walk[1].source, target |-> walk[1].target,
                    sourceStep |-> Undefined, targetStep |-> Undefined])

\* C12: on a table that does not change, the page scan and the count scan select the same
\* sessions, pagination.total is their number, and the pages 1..totalPages of a fixed limit
\* hold every qualifying session exactly once.
C12_TotalAndPagesPartition ==
  /\ TransitionAnswered =>
       /\ QualifyingIn(scan.page_paths, req) = QualifyingIn(scan.count_paths, req)
       /\ res.pagination.total = Cardinality(QualifyingIn(scan.page_paths, req))
  /\ WalkComplete =>
       LET ids == ConcatPages(walk)
       IN  /\ \A i, j \in 1..Len(ids) : i # j => ids[i] # ids[j]
           /\ Range(ids) = WalkQualifying

\* the sessions of the page scan's qualifying set that rank before / not after a timestamp
RankedBefore(ts) ==
  {sid \in QualifyingIn(scan.page_paths, req) :
     \E m \in MatchingSessions(PageUserPaths(scan.page_paths), req) :
       m.session_id = sid /\ m.transition_timestamp > ts}

RankedNotAfter(ts) ==
  {sid \in QualifyingIn(scan.page_paths, req) :
     \E m \in MatchingSessions(PageUserPaths(scan.page_paths), req) :
       m.session_id = sid /\ m.transition_timestamp >= ts}

C14_TraitFailureNotFatal ==
  /\ (scan.query \in {"page", "count"} /\ pc = "sent") => scan.traits # "failed" \/ res.status = 200
  /\ TransitionAnswered =>
       /\ \A i \in 1..Len(res.data) : res.data[i].traits = Null
       /\ res.pagination.limit >= 1

\* the body a handler may send with a 5xx
GenericBody ==
  IF req.handler = "journeys"
  THEN [status |-> 500, error |-> "Failed to get journeys"]
  ELSE [status |-> 500, error |-> "Failed to get journey transition sessions"]

\* C15: when a query of the event store fails the handler answers 5xx with a generic body
\* that does not depend on the error; the error's message is logged, never sent.
C15_GenericFailureBody ==
  pc = "sent" =>
    /\ scan.query = "failed" => res.status = 500
    /\ res.status = 500 => res = GenericBody

\* a query parameter that is given and is not a number
NotANumber(param) ==
  /\ param # Undefined
  /\ \/ param = <<>>
     \/ \E i \in 1..Len(param) : param[i] \notin DigitChars

\* the numeric parameters of the request in flight
NumericParams ==
  IF req.handler = "journeys" THEN {req.steps, req.limit}
  ELSE IF req.handler = "transition" THEN {req.limit, req.page, req.sourceStep, req.targetStep}
  ELSE {}

\* C16: a numeric query parameter that is not a number is answered with a 4xx: it reaches no
\* store query, gives no 5xx, and is not taken for a number or for an absent parameter.
C16_NonNumericRejected ==
  (\E param \in NumericParams : NotANumber(param)) =>
    /\ scan.query = "none"
    /\ pc = "sent" => res.status = 400

\* a parameter, or its default, is a number of the range
InRange(param, default, lo, hi) ==
  LET n == parseInt(OrDefault(param, default))
  IN  ~ n.nan /\ lo <= n.v /\ n.v <= hi

\* C17: the journeys handler answers 400 when steps is outside 2..10, limit outside 1..500 or
\* stepFilters is no map from position to pattern (malformed JSON, null, a non-string value);
\* every other request it accepts, with steps 3 and limit 100 when they are absent.
C17_JourneysValidation ==
  (req.handler = "journeys" /\ pc = "sent") =>
    IF /\ InRange(req.steps, <<"3">>, 2, 10)
       /\ InRange(req.limit, <<"1","0","0">>, 1, 500)
       /\ req.stepFilters.json \in {"undefined", "object"}
    THEN /\ res.status # 400
         /\ res.status = 200 =>
              /\ scan.query_params.maxSteps = (IF req.steps = Undefined THEN 3 ELSE parseInt(req.steps).v)
              /\ scan.query_params.journeyLimit =
                   (IF req.limit = Undefined THEN 100 ELSE parseInt(req.limit).v)
    ELSE res.status = 400

\* C18: the transition handler answers 400 when source or target is missing or empty or limit
\* is outside 1..200; for a request it accepts page is at least 1 and the offset it passes
\* to the store is a non-negative integer.
C18_TransitionValidation ==
  req.handler = "transition" =>
    IF \/ ~ Truthy(req.source) \/ ~ Truthy(req.target)
       \/ ~ InRange(req.limit, <<"5","0">>, 1, 200)
    THEN pc = "sent" /\ res.status = 400
    ELSE /\ res.status # 400
         /\ InRange(req.page, <<"1">>, 1, 9)
         /\ scan.query # "none" =>
              /\ ~ scan.query_params.offset.nan
              /\ scan.query_params.offset.v >= 0

(***************************************************************************)
(* Excluded event names                                                    *)
(***************************************************************************)
\* the set of trimmed, non-empty names of a list
TrimmedNonEmpty(names) == {trim(names[i]) : i \in 1..Len(names)} \ {EmptyStr}

\* a scan of the request in flight has parsed excludeEventNames
ExclusionParsed == scan.query \in {"journeys", "page", "count"}

\* the request in flight was answered without a query or a trait lookup having failed
NoFailure == scan.query # "failed" /\ (scan.query \in {"page", "count"} => scan.traits # "failed")

\* the original statement of C19: whatever the names, their JSON array and their
\* comma-separated string normalize to the set of the trimmed, non-empty names
C19_SameNormalizationAlways ==
  ExclusionParsed =>
    \A names \in NameLists :
      (req.excludeEventNames \in {JSONStringify(names), CommaJoin(names)})
        => Range(scan.excluded) = TrimmedNonEmpty(names)

\* C19: names given as a JSON array and as their comma-separated string normalize, in both
\* handlers, to the same set of trimmed, non-empty names, provided the comma-separated
\* string is not itself the text of a JSON array; a text that is no JSON array is never an
\* error and is split at its commas.
C19_SameNormalization ==
  /\ ExclusionParsed =>
       \A names \in NameLists :
         /\ req.excludeEventNames = JSONStringify(names)
              => Range(scan.excluded) = TrimmedNonEmpty(names)
         /\ (req.excludeEventNames = CommaJoin(names) /\ JSONParse(CommaJoin(names)).kind # "array")
              => Range(scan.excluded) = TrimmedNonEmpty(names)
  /\ (pc = "sent" /\ req.handler \in {"journeys", "transition"} /\ NoFailure
        /\ req.excludeEventNames # Undefined)
       => res.status = 200

\* the transition handler has read the string " x ,y" as the names x and y, as the array
\* [" x ","y"] is read, and answered
C19_Witness ==
  /\ scan.query = "count"
  /\ req.excludeEventNames = CommaJoin(<<<<" ","x"," ">>, N_y>>)
  /\ scan.excluded = excludedEventNames(JSONStringify(<<<<" ","x"," ">>, N_y>>))
  /\ scan.excluded = <<N_x, N_y>>
  /\ store # {}
  /\ res.status = 200

\* the rows of a table left for the paths of request r when the events named in the excluded
\* names are absent from it
RowsWithoutExcluded(table, r) ==
  {e \in table :
     /\ e.event_name \notin Range(scan.excluded)
     /\ FilterStatement(r.filters, e)
     /\ \/ e.type = S_pageview
        \/ includeEventsInJourney(r.includeEvents) /\ e.type \in InteractionTypes}

\* every step of the paths is a pageview label when events are not included
PageviewStepsOnly(paths) ==
  includeEventsInJourney(req.includeEvents)
    \/ \A sid \in DOMAIN paths : \A i \in 1..Len(paths[sid]) : ~ startsWith(paths[sid][i], S_eventColon)

\* C20: the paths of a request are those built from the table without the events whose name
\* is excluded, whatever includeEvents is, runs collapsed after the exclusion; with
\* includeEvents false the paths hold pageview labels only.
C20_ExcludedEventsAbsent ==
  /\ scan.query = "journeys" =>
       /\ PathsCollapse(scan.order, RowsWithoutExcluded(store, req), scan.path_sequence, TRUE)
       /\ PageviewStepsOnly(scan.path_sequence)
  /\ scan.query \in {"page", "count"} =>
       LET paths == [sid \in DOMAIN scan.page_paths |-> scan.page_paths[sid].path_sequence]
       IN  /\ PathsCollapse(scan.page_order, RowsWithoutExcluded(scan.page_table, req), paths, FALSE)
           /\ PageviewStepsOnly(paths)
  /\ scan.query = "count" =>
       LET paths == [sid \in DOMAIN scan.count_paths |-> scan.count_paths[sid].path_sequence]
       IN  /\ PathsCollapse(scan.count_order, RowsWithoutExcluded(scan.count_table, req), paths, FALSE)
           /\ PageviewStepsOnly(paths)

\* with x excluded the two loads of /a around it collapse: session 1 walks /a, /b
C20_Witness ==
  /\ scan.query = "journeys"
  /\ Cardinality({e \in store : e.session_id = 1}) = 4
  /\ scan.excluded = <<N_x>>
  /\ includeEventsInJourney(req.includeEvents)
  /\ scan.path_sequence[1] = <<P_a, P_b>>
  /\ res.status = 200

(***************************************************************************)
(* Steps with properties                                                   *)
(***************************************************************************)
Quoted(s) == <<Quote>> \o s \o <<Quote>>

JSONMember(key, raw) == Quoted(key) \o <<":">> \o raw

K_color == <<"c","o","l","o","r">>
K_n == <<"n">>
V_red == <<"r","e","d">>
V_blue == <<"b","l","u","e">>
V_5 == <<"5">>
U_1 == <<"u","1">>
U_2 == <<"u","2">>
I_2 == <<"i","2">>

\* {"color":"red"}
Props_red == <<"{">> \o JSONMember(K_color, Quoted(V_red)) \o <<"}">>

\* {"color":"red","n":"5"}
Props_red5 ==
  <<"{">> \o JSONMember(K_color, Quoted(V_red)) \o <<",">> \o JSONMember(K_n, Quoted(V_5))
  \o <<"}">>

\* {"color":"blue","n":5}
Props_blue5 ==
  <<"{">> \o JSONMember(K_color, Quoted(V_blue)) \o <<",">> \o JSONMember(K_n, V_5) \o <<"}">>

\* {"color":"blue"}
Props_blue == <<"{">> \o JSONMember(K_color, Quoted(V_blue)) \o <<"}">>

\* an event as the step-detail scans read it: with its properties and its user
StepEvent(sid, ts, type, pathname, name, props, user_id, identified_user_id) ==
  [session_id |-> sid, timestamp |-> ts, type |-> type, pathname |-> pathname,
   event_name |-> name, country |-> US, props |-> props, user_id |-> user_id,
   identified_user_id |-> identified_user_id]

S_event_x == S_eventColon \o S_custom_event \o S_colon \o N_x

\* session 1 views /a and fires x (red), then x again; session 2, an identified user, fires x
\* twice (red, then blue); session 3 fires x twice within one timestamp, once without
\* properties
DetailUniverse ==
  { StepEvent(1, 1, S_pageview, P_a, EmptyStr, S_emptyObject, U_1, EmptyStr),
    StepEvent(1, 2, S_custom_event, P_a, N_x, Props_red, U_1, EmptyStr),
    StepEvent(1, 3, S_custom_event, P_a, N_x, Null, U_1, EmptyStr),
    StepEvent(2, 1, S_custom_event, P_a, N_x, Props_red5, U_2, I_2),
    StepEvent(2, 2, S_custom_event, P_a, N_x, Props_blue5, U_2, I_2),
    StepEvent(3, 1, S_custom_event, P_b, N_x, S_emptyObject, EmptyStr, EmptyStr),
    StepEvent(3, 1, S_custom_event, P_b, N_x, Props_blue, EmptyStr, EmptyStr) }

DetailRequests ==
  [handler : {"stepDetails"},
   stepLabel : {S_event_x, P_a, Undefined},
   stepIndex : {Undefined, <<"0">>, <<"1">>},
   filters : {Undefined}]

NextDetail ==
  \/ Ingest(DetailUniverse)
  \/ StepDetailHistogramScan(DetailRequests)
  \/ StepDetailEventsScan
  \/ StepDetailProperties(DetailRequests)
  \/ Deliver

SpecDetail == InitStore /\ [][NextDetail]_vars

(***************************************************************************)
(* The step-detail histogram and event list                                *)
(***************************************************************************)
DetailAnswered == req.handler = "stepDetails" /\ pc = "sent" /\ res.status = 200

PropertiesAnswered == req.handler = "stepProperties" /\ pc = "sent" /\ res.status = 200

\* the step number of row i of a scan: its rank by timestamp within its session
StepNumberIn(order, i) ==
  Cardinality({j \in 1..i : order[j].session_id = order[i].session_id})

\* the label a step-detail request names for an event: the pathname of a pageview (with the
\* draft prefix), the event label of an interaction
DetailLabelOf(e) ==
  IF e.type \in InteractionTypes THEN EventLabel(e) ELSE DraftPrefixLabel(e.pathname)

\* the events of a scan the request retains
RetainedIn(order) ==
  { order[i] : i \in { k \in 1..Len(order) :
      /\ DetailLabelOf(order[k]) = req.stepLabel
      /\ Truthy(req.stepIndex) => StepNumberIn(order, k) = parseInt(req.stepIndex).v + 1 } }

\* the value of a member as the histogram shows it: the text of a string, the token otherwise
ShownValue(raw) ==
  IF Len(raw) >= 2 /\ raw[1] = Quote /\ raw[Len(raw)] = Quote
  THEN SubSeq(raw, 2, Len(raw) - 1) ELSE raw

\* the property bag of the event has the key with the value
HasProperty(e, key, value) ==
  /\ e.props # Null
  /\ \E m \in Range(JSONExtractKeysAndValuesRaw(e.props)) :
       m.key = key /\ ShownValue(m.raw) = value

PropertyPairs(events) ==
  UNION { { <<m.key, ShownValue(m.raw)>> : m \in Range(JSONExtractKeysAndValuesRaw(e.props)) } :
          e \in {x \in events : x.props # Null} }

HistogramEntries(properties) ==
  UNION { { <<key, properties[key][i].value, properties[key][i].count>> :
            i \in 1..Len(properties[key]) } : key \in DOMAIN properties }

\* C21: the count the response reports for (key, value) is the number of retained events
\* (label equal to stepLabel, step number equal to stepIndex + 1 when stepIndex is given)
\* whose property bag has the key with the value, every pair of a retained event is reported
\* below the cap, and a retained event with the empty property bag is reported in no entry
\* and is in the event list.
C21_HistogramCounts ==
  DetailAnswered =>
    /\ \A h \in HistogramEntries(res.properties) :
         h[3] = Cardinality({e \in RetainedIn(scan.hist_order) : HasProperty(e, h[1], h[2])})
    /\ Len(scan.hist_rows) < HistogramLimit =>
         PropertyPairs(RetainedIn(scan.hist_order))
           = {<<h[1], h[2]>> : h \in HistogramEntries(res.properties)}
    /\ Cardinality(RetainedIn(scan.list_order)) <= EventListLimit =>
         \A e \in RetainedIn(scan.list_order) :
           e.props = S_emptyObject =>
             \E i \in 1..Len(res.events) :
               /\ res.events[i].session_id = e.session_id
               /\ res.events[i].timestamp = toString(e.timestamp)

C21_Witness ==
  /\ DetailAnswered
  /\ req.stepLabel = S_event_x
  /\ req.stepIndex = Undefined
  /\ <<K_color, V_red, 2>> \in HistogramEntries(res.properties)
  /\ \E e \in RetainedIn(scan.list_order) : e.props = S_emptyObject
  /\ scan.hist_table = scan.list_table

\* the retained events, as the response lists one
ListedAs(e) ==
  [timestamp |-> toString(e.timestamp), user_id |-> OrEmpty(e.user_id),
   identified_user_id |-> OrEmpty(e.identified_user_id), session_id |-> e.session_id]

\* the rows behind the events of the response, in the order of the response
ListedRows == [i \in 1..Len(scan.list_rows) |-> scan.list_rows[i].row]

\* C22: every successful step-detail response carries an events list next to properties; the
\* list holds (timestamp, user_id, identified_user_id, session_id) of the min(100, number
\* of retained events) most recent retained events, most recent first, with or without
\* properties; and the events retained for the list are those retained for the histogram.
C22_EventList ==
  (DetailAnswered \/ PropertiesAnswered) =>
    /\ "properties" \in DOMAIN res
    /\ "events" \in DOMAIN res
    /\ Len(res.events) = MinOf(EventListLimit, Cardinality(RetainedIn(scan.list_order)))
    /\ \A i \in 1..Len(res.events) :
         /\ ListedRows[i] \in RetainedIn(scan.list_order)
         /\ res.events[i] = ListedAs(ListedRows[i])
         /\ \A j \in 1..Len(res.events) : i < j => ListedRows[i].timestamp >= ListedRows[j].timestamp
         /\ \A e \in RetainedIn(scan.list_order) \ Range(ListedRows) :
              e.timestamp <= ListedRows[i].timestamp
    /\ \A i, j \in 1..Len(res.events) : i # j => ListedRows[i] # ListedRows[j]
    /\ RetainedIn(scan.list_order) = RetainedIn(scan.hist_order)

(***************************************************************************)
(* Sessions with events outside the path and events of equal timestamp     *)
(***************************************************************************)
\* a page view with no properties, seen from a country
ViewFrom(sid, ts, pathname, country) ==
  [StepEvent(sid, ts, S_pageview, pathname, EmptyStr, S_emptyObject, U_1, EmptyStr)
     EXCEPT !.country = country]

\* session 1 starts with a performance row, views /a and /b and, from another country, /x;
\* session 2 views /a, then /b twice within one timestamp, once from another country
SummaryUniverse ==
  { [ViewFrom(1, 0, P_a, US) EXCEPT !.type = S_performance],
    ViewFrom(1, 1, P_a, US), ViewFrom(1, 2, P_b, US), ViewFrom(1, 3, P_x, DE),
    ViewFrom(2, 1, P_a, US), ViewFrom(2, 2, P_b, US), ViewFrom(2, 2, P_b, DE) }

SummaryTransitionRequests ==
  [handler : {"transition"},
   source : {P_a},
   target : {P_b, P_x},
   sourceStep : {Undefined},
   targetStep : {Undefined},
   includeEvents : {Undefined},
   excludeEventNames : {Undefined},
   filters : {Undefined, US},
   limit : {<<"1">>, Undefined},
   page : {Undefined, <<"2">>}]

NextSummary ==
  \/ Ingest(SummaryUniverse)
  \/ TransitionPageScan(SummaryTransitionRequests)
  \/ EnrichWithTraits
  \/ TransitionCountScan
  \/ Deliver

SpecSummary == InitStore /\ [][NextSummary]_vars

(***************************************************************************)
(* The records of a transition response                                    *)
(***************************************************************************)
\* the timestamps of all the events the table held for the session at the page scan
TimestampsOfSession(sid) == {e.timestamp : e \in {x \in scan.page_table : x.session_id = sid}}

\* C29: a transition response holds at most one record per session_id and at most limit
\* records, and every record has session_start <= transition_timestamp <= session_end and
\* session_duration >= 0, session_start and session_end being the earliest and the latest
\* timestamp of all the session's events, not only of those the filter predicate passes.
C29_SessionRecords ==
  TransitionAnswered =>
    /\ Len(res.data) <= res.pagination.limit
    /\ \A i, j \in 1..Len(res.data) : i # j => res.data[i].session_id # res.data[j].session_id
    /\ \A i \in 1..Len(res.data) :
         /\ res.data[i].session_start <= res.data[i].transition_timestamp
         /\ res.data[i].transition_timestamp <= res.data[i].session_end
         /\ res.data[i].session_duration >= 0
         /\ \A t \in TimestampsOfSession(res.data[i].session_id) :
              res.data[i].session_start <= t /\ t <= res.data[i].session_end
         /\ res.data[i].session_start \in TimestampsOfSession(res.data[i].session_id)
         /\ res.data[i].session_end \in TimestampsOfSession(res.data[i].session_id)

C29_Witness ==
  /\ TransitionAnswered
  /\ req.filters = US
  /\ Len(res.data) = 1
  /\ res.data[1].session_id = 1
  /\ res.data[1].session_start = 0
  /\ res.data[1].transition_timestamp = 1
  /\ res.data[1].session_end = 3

(***************************************************************************)
(* A client repeating a request                                            *)
(***************************************************************************)
RepeatJourneysRequests ==
  [handler : {"journeys"},
   steps : {<<"3">>},
   limit : {<<"1">>, Undefined},
   stepFilters : {NoStepFilters},
   includeEvents : {Undefined},
   excludeEventNames : {Undefined},
   filters : {Undefined}]

RepeatTransitionRequests ==
  {r \in SummaryTransitionRequests : r.target = P_b /\ r.filters = Undefined /\ r.page = Undefined}

RepeatDetailRequests ==
  [handler : {"stepDetails"},
   stepLabel : {P_b},
   stepIndex : {Undefined, <<"1">>},
   filters : {Undefined}]

\* the client asks once, then sends the same request again
AskOrRepeat(requests) ==
  IF walk = <<>> THEN requests ELSE {r \in requests : r = walk[1].request}

\* the client receives a response and keeps it next to its request
ReceiveAnswer ==
  /\ pc = "sent"
  /\ Len(walk) < 2
  /\ walk' = Append(walk, [request |-> req, response |-> res])
  /\ pc' = "idle"
  /\ req' = NoReq
  /\ scan' = NoScan
  /\ res' = NoRes
  /\ UNCHANGED <<ev, labels, store>>

\* events arrive before the client asks, none between its two requests
IngestBeforeAsking ==
  /\ walk = <<>>
  /\ Ingest(SummaryUniverse)

NextRepeat ==
  \/ IngestBeforeAsking
  \/ GetJourneys(AskOrRepeat(RepeatJourneysRequests))
  \/ TransitionPageScan(AskOrRepeat(RepeatTransitionRequests))
  \/ EnrichWithTraits
  \/ TransitionCountScan
  \/ StepDetailHistogramScan(AskOrRepeat(RepeatDetailRequests))
  \/ StepDetailEventsScan
  \/ ReceiveAnswer

SpecRepeat == InitStore /\ [][NextRepeat]_vars

(***************************************************************************)
(* Repeated requests                                                       *)
(***************************************************************************)
\* the client holds two successful responses to one request
AnsweredTwice ==
  /\ Len(walk) = 2
  /\ walk[1].request = walk[2].request
  /\ walk[1].response.status = 200
  /\ walk[2].response.status = 200

\* C23: the same journeys, transition or step-detail request, repeated against an unchanged
\* event store, is answered with an identical response: the order of journeys of equal
\* count, the order and page membership of sessions of equal transition timestamp, the
\* summary attributes chosen among events of equal timestamp and the order of events of
\* equal timestamp in the raw event list included.
C23_RepeatIdentical == AnsweredTwice => walk[1].response = walk[2].response

(***************************************************************************)
(* A client opening the details of a journey step                          *)
(***************************************************************************)
P_ac == <<"/","a","/","c">>

\* session 1 views /a, reloads it and views /b; session 2 views /a and /b; session 3 views
\* /a/c and /b
DrillUniverse ==
  { ViewFrom(1, 1, P_a, US), ViewFrom(1, 2, P_a, US), ViewFrom(1, 3, P_b, US),
    ViewFrom(2, 1, P_a, US), ViewFrom(2, 2, P_b, US),
    ViewFrom(3, 1, P_ac, US), ViewFrom(3, 2, P_b, US) }

DrillJourneysRequests ==
  [handler : {"journeys"},
   steps : {<<"2">>, <<"3">>},
   limit : {Undefined},
   stepFilters : {NoStepFilters},
   includeEvents : {Undefined},
   excludeEventNames : {Undefined},
   filters : {Undefined, US}]

\* the step-detail requests of the steps of the journeys the client holds: the label of
\* the step and its 0-based position in the path, with the filter of the journeys request
StepRequestsOf(answer) ==
  IF answer.response.status # 200 THEN {}
  ELSE UNION { { [handler |-> "stepDetails",
                  stepLabel |-> answer.response.journeys[i].path[p + 1],
                  stepIndex |-> toString(p),
                  filters |-> answer.request.filters] :
                 p \in 0..(Len(answer.response.journeys[i].path) - 1) } :
               i \in 1..Len(answer.response.journeys) }

\* the client asks for the journeys, then for the details of one of their steps
DrillRequests ==
  IF Len(walk) = 1 /\ walk[1].request.handler = "journeys" THEN StepRequestsOf(walk[1]) ELSE {}

\* the client asks for the journeys
AskJourneys ==
  /\ walk = <<>>
  /\ GetJourneys(DrillJourneysRequests)

\* the client opens a step of a journey it holds
OpenStep == StepDetailHistogramScan(DrillRequests)

IngestBeforeDrill ==
  /\ walk = <<>>
  /\ Ingest(DrillUniverse)

NextDrill ==
  \/ IngestBeforeDrill
  \/ AskJourneys
  \/ OpenStep
  \/ StepDetailEventsScan
  \/ ReceiveAnswer

SpecDrill == InitStore /\ [][NextDrill]_vars

(***************************************************************************)
(* Journey steps and their details                                         *)
(***************************************************************************)
\* C28: for every journey a journeys request returns (includeEvents true, no excluded
\* names) and every 0-based position p of its path with label L, the step-detail request
\* with stepLabel = L and stepIndex = p over the same store and filter retains at least one
\* event, in the histogram scan and in the event-list scan.
C28_StepIdentifiesEvents ==
  (DetailAnswered /\ Len(walk) = 1 /\ req \in StepRequestsOf(walk[1])) =>
    /\ RetainedIn(scan.hist_order) # {}
    /\ RetainedIn(scan.list_order) # {}
    /\ Len(res.events) >= 1

(***************************************************************************)
(* Events arriving while a request is served                               *)
(***************************************************************************)
\* the ingestion pipeline appends an event between the two scans of a request
IngestBetweenScans(universe) ==
  /\ pc \in {"page_read", "enriched", "histogram_read"}
  /\ Cardinality(store) < MaxEvents
  /\ \E e \in universe \ store : store' = store \cup {e}
  /\ UNCHANGED <<ev, labels, pc, req, scan, res, walk>>

ConcurrentTransitionRequests ==
  {r \in SummaryTransitionRequests : r.filters = Undefined /\ r.page = Undefined}

NextConcurrent ==
  \/ Ingest(SummaryUniverse)
  \/ IngestBetweenScans(SummaryUniverse)
  \/ TransitionPageScan(ConcurrentTransitionRequests)
  \/ EnrichWithTraits
  \/ TransitionCountScan
  \/ StepDetailHistogramScan(RepeatDetailRequests)
  \/ StepDetailEventsScan
  \/ Deliver

SpecConcurrent == InitStore /\ [][NextConcurrent]_vars

(***************************************************************************)
(* The two scans of a request                                              *)
(***************************************************************************)
\* both scans of the transition request in flight answered
TransitionScansDone == req.handler = "transition" /\ pc = "sent" /\ scan.query = "count"

\* both scans of the step-detail request in flight answered
DetailScansDone == req.handler = "stepDetails" /\ pc = "sent" /\ scan.query = "events"

\* the rows of the paths in a table, for the transition request in flight
PathRowsOf(table) ==
  {e \in table : PathScanWhere(e, req.filters, includeEventsInJourney(req.includeEvents),
                               excludedEventNames(req.excludeEventNames))}

\* C24: each of the two scans of a transition request (and of a step-detail request) reads
\* one snapshot of the table, the second scan the table as it is when it runs, whatever was
\* appended since the first; the request is answered with a success status, the page comes
\* from the first snapshot and pagination.total (the event list) from the second.
C24_SeparateSnapshots ==
  /\ TransitionScansDone =>
       /\ Range(scan.page_order) = PathRowsOf(scan.page_table)
       /\ Range(scan.count_order) = PathRowsOf(scan.count_table)
       /\ scan.page_table \subseteq scan.count_table
       /\ scan.count_table = store
       /\ res.status = 200
       /\ res.pagination.total = Cardinality(QualifyingIn(scan.count_paths, req))
       /\ \A i \in 1..Len(res.data) :
            res.data[i].session_id \in QualifyingIn(scan.page_paths, req)
  /\ DetailScansDone =>
       /\ Range(scan.hist_order) = {e \in scan.hist_table : DetailScanWhere(e, req.filters)}
       /\ Range(scan.list_order) = {e \in scan.list_table : DetailScanWhere(e, req.filters)}
       /\ scan.hist_table \subseteq scan.list_table
       /\ scan.list_table = store
       /\ res.status = 200
       /\ Len(res.events) = MinOf(EventListLimit, Cardinality(RetainedIn(scan.list_order)))

\* events arrived between the scans, and the total is not the size of the set the page was
\* sliced from
C24_Witness ==
  /\ TransitionScansDone
  /\ scan.page_table # scan.count_table
  /\ res.status = 200
  /\ res.pagination.total # Cardinality(QualifyingIn(scan.page_paths, req))
  /\ Len(res.data) = Cardinality(QualifyingIn(scan.page_paths, req))

(***************************************************************************)
(* Events appended in the order of their timestamps                        *)
(***************************************************************************)
\* a plausible slip: an event may arrive with a timestamp before those its session has
AppendLater_AnyTime(universe) ==
  /\ pc \in {"idle", "page_read", "enriched"}
  /\ Cardinality(store) < MaxEvents
  /\ \E e \in universe \ store : store' = store \cup {e}
  /\ UNCHANGED <<ev, labels, pc, req, scan, res, walk>>

\* the ingestion pipeline appends an event later than all the events its session has, between
\* two requests or between the two scans of one
AppendLater(universe) ==
  /\ pc \in {"idle", "page_read", "enriched"}
  /\ Cardinality(store) < MaxEvents
  /\ \E e \in universe \ store :
       /\ \A x \in store : x.session_id = e.session_id => x.timestamp < e.timestamp
       /\ store' = store \cup {e}
  /\ UNCHANGED <<ev, labels, pc, req, scan, res, walk>>

AppendTransitionRequests ==
  [handler : {"transition"},
   source : {P_a, P_x},
   target : {P_b},
   sourceStep : {Undefined, <<"0">>},
   targetStep : {Undefined},
   includeEvents : {Undefined},
   excludeEventNames : {Undefined},
   filters : {Undefined},
   limit : {Undefined},
   page : {Undefined}]

NextAppend ==
  \/ AppendLater(PagingUniverse)
  \/ TransitionPageScan(AppendTransitionRequests)
  \/ EnrichWithTraits
  \/ TransitionCountScan
  \/ Deliver

SpecAppend == InitStore /\ [][NextAppend]_vars

(***************************************************************************)
(* Qualifying sessions under appends                                       *)
(***************************************************************************)
\* the qualifying sessions of a transition query over a table, each with its positions and
\* its transition timestamp, in any of the orders the scan may read the table
MatchingOver(table, r) ==
  UNION { MatchingSessions(PageUserPaths(PagePathSequences(order)), r) :
          order \in ScanOrders({e \in table :
                       PathScanWhere(e, r.filters, includeEventsInJourney(r.includeEvents),
                                     excludedEventNames(r.excludeEventNames))}) }

\* every qualifying session of every query stays qualifying, with its transition timestamp
QualifyingKept ==
  store' # store =>
    \A r \in AppendTransitionRequests : MatchingOver(store, r) \subseteq MatchingOver(store', r)

\* the total of the count scan covers the sessions that qualified at the page scan
TotalCoversPage ==
  TransitionScansDone =>
    /\ QualifyingIn(scan.page_paths, req) \subseteq QualifyingIn(scan.count_paths, req)
    /\ res.pagination.total >= Cardinality(QualifyingIn(scan.page_paths, req))
    /\ \A i \in 1..Len(res.data) :
         res.data[i].session_id \in QualifyingIn(scan.count_paths, req)
    /\ res.pagination.total >= Len(res.data)

\* C30: when events are only appended, each later than all the events its session has, the
\* set of sessions qualifying for a fixed transition query never shrinks and the transition
\* timestamp of a qualifying session never changes; so in one request the total of the
\* count scan is at least the number of sessions qualifying at the page scan, and every
\* session in data is counted in total.
C30_QualifyingNeverShrinks == [][QualifyingKept]_vars /\ [](TotalCoversPage)

\* a session came to qualify between the page scan and the count scan
C30_Witness ==
  /\ TransitionScansDone
  /\ scan.page_table # scan.count_table
  /\ Len(res.data) >= 1
  /\ res.pagination.total > Cardinality(QualifyingIn(scan.page_paths, req))

(***************************************************************************)
(* Step filters on labels of several segments                              *)
(***************************************************************************)
L_blog == <<"/","b","l","o","g">>
L_post == L_blog \o <<"/","p","o","s","t","-","1">>
L_comments == L_post \o <<"/","c","o","m","m","e","n","t","s">>
L_blogs == L_blog \o <<"s">>
L_blogSlash == L_blog \o <<"/">>

FilterLabels == {L_blog, L_post, L_comments, L_blogs, L_blogSlash, P_a}

\* the journeys the HAVING is evaluated on: two labels, never the same twice in a row
FilterJourneys == {j \in FilterLabels \X FilterLabels : j[1] # j[2]}

FilterPaths ==
  { L_blog \o <<"/","*">>, L_blog \o <<"/","*","*">>, <<"/","*">>, <<"/","*","*">>,
    <<"/","*","/","*">>, <<"/","*","*","/","c","o","m","m","e","n","t","s">>,
    L_blog, L_post, L_blogSlash }

\* the HAVING of journey_segments evaluates one condition of the step filters on a journey
EvaluateStepFilter ==
  /\ pc = "idle"
  /\ \E journey \in FilterJourneys, step \in {<<"0">>, <<"1">>, <<"2">>}, path \in FilterPaths :
       /\ req' = [handler |-> "stepFilter", journey |-> journey, step |-> step, path |-> path]
       /\ scan' = [query |-> "having", kept |-> StepFilterCondition(journey, step, path)]
  /\ res' = NoRes
  /\ pc' = "sent"
  /\ UNCHANGED <<ev, labels, store, walk>>

NextFilter ==
  \/ EvaluateStepFilter
  \/ Deliver

SpecFilter == InitStore /\ [][NextFilter]_vars

(***************************************************************************)
(* Wildcards of step filters                                               *)
(***************************************************************************)
S_star == <<"*">>
S_starStar == <<"*","*">>

\* a pattern against a label, both cut into their segments: '*' stands for exactly one
\* segment (not an empty one), '**' for one segment or more, anything else for itself
RECURSIVE SegmentsMatch(_, _)
SegmentsMatch(ps, ss) ==
  IF ps = <<>> THEN ss = <<>>
  ELSE IF Head(ps) = S_starStar
       THEN \E k \in 1..Len(ss) : SegmentsMatch(Tail(ps), SubSeq(ss, k + 1, Len(ss)))
  ELSE IF Head(ps) = S_star
       THEN ss # <<>> /\ Head(ss) # EmptyStr /\ SegmentsMatch(Tail(ps), Tail(ss))
  ELSE ss # <<>> /\ Head(ss) = Head(ps) /\ SegmentsMatch(Tail(ps), Tail(ss))

\* the label the condition in flight looks at: the step of the journey, '' beyond its end
FilteredLabel == arrayElementStr(req.journey, parseInt(req.step).v + 1)

FilterEvaluated == req.handler = "stepFilter" /\ pc = "sent"

HistogramRead == "hist_rows" \in DOMAIN scan

RECURSIVE SumPercentageNum(_)
SumPercentageNum(journeys) ==
  IF journeys = <<>> THEN 0
  ELSE Head(journeys).percentage.num + SumPercentageNum(Tail(journeys))

\* C27: every journey of a journeys response has a path of at least 2 and at most steps
\* labels, no two adjacent labels equal, a count of at least 1 and a percentage above 0 and
\* at most 100; no two journeys have the same path, the percentages sum to at most 100, and
\* when no session matches the response is the empty list with a success status.
C27_JourneyShape ==
  JourneysAnswered =>
    /\ \A i \in 1..Len(res.journeys) :
         /\ Len(res.journeys[i].path) >= 2
         /\ Len(res.journeys[i].path) <= StepsOf(req)
         /\ \A k \in 1..(Len(res.journeys[i].path) - 1) :
              res.journeys[i].path[k] # res.journeys[i].path[k + 1]
         /\ res.journeys[i].count >= 1
         /\ res.journeys[i].percentage.den > 0
         /\ res.journeys[i].percentage.num > 0
         /\ res.journeys[i].percentage.num <= 100 * res.journeys[i].percentage.den
         /\ res.journeys[i].percentage.den = res.journeys[1].percentage.den
    /\ \A i, k \in 1..Len(res.journeys) : i # k => res.journeys[i].path # res.journeys[k].path
    /\ res.journeys # <<>> =>
         SumPercentageNum(res.journeys) <= 100 * res.journeys[1].percentage.den
    /\ LongSessions = {} => res.journeys = <<>>

\* two journeys of three sessions, one of them with a one-entry path
C27_Witness ==
  /\ JourneysAnswered
  /\ Len(res.journeys) = 2
  /\ SumPercentageNum(res.journeys) = 200
  /\ res.journeys[1].percentage.den = 3
  /\ \E i \in 1..2 : Len(res.journeys[i].path) = 3

\* no session has a path of two steps: the empty list, with a success status
C27_WitnessEmpty ==
  /\ JourneysAnswered
  /\ store # {}
  /\ LongSessions = {}
  /\ res.journeys = <<>>

====
